---- MODULE Spec2Model ----
(***************************************************************************)
(* SmartGrade: the grading orchestration engine.                           *)
(*                                                                         *)
(*   upload_file (routes/main.py) creates a registry entry and starts a    *)
(*   worker thread running run_grading_task (services/grading_service.py), *)
(*   which drives ExamGrader.grade_exam_with_multiple_models: structure    *)
(*   discovery, per-question multi-provider dispatch, combine_results_v2,  *)
(*   and the final registry update.  get_progress (routes/api.py) polls    *)
(*   the registry; clear_history (routes/main.py) clears it.               *)
(*                                                                         *)
(* Numbers: every score is an integer count of tenths of a point           *)
(* (Unit = 10 tenths = 1 point), so 0.5 point is Half = 5 and the mean of  *)
(* the provider scores is the exact rational sum/len.                      *)
(* Strings that the code inspects (group names, question ids, unique ids)  *)
(* are sequences of one-character strings.                                 *)
(***************************************************************************)
EXTENDS Integers, Sequences, FiniteSets, TLC

\* ------------------------------------------------------------------------
\* Bounds of the model
\* ------------------------------------------------------------------------
\* largest explicitly supplied question_count
MaxCount == 1

\* ------------------------------------------------------------------------
\* Program constants
\* ------------------------------------------------------------------------
\* round(avg_score * 2) / 2 : the grading granularity, 0.5 point, in tenths
Half == 5
\* tenths per point
Unit == 2 * Half
\* default_max_score = max_score if max_score is not None else 10.0
DefaultMaxScore == 100
\* range(1, 11): the fallback question count
FallbackCount == 10
\* hard-coded category defaults: "选择" -> 3, "填空" -> 2, "判断" -> 2
ChoiceScore == 30
FillScore == 20
JudgeScore == 20

\* ------------------------------------------------------------------------
\* JSON / Python values
\* ------------------------------------------------------------------------
\* None / a missing key read with .get()
None == [t |-> "none"]
\* a number, in tenths
Num(v) == [t |-> "num", v |-> v]
\* a key that is not in the dict
Missing == [t |-> "missing"]
\* an integer (a count)
IntVal(n) == [t |-> "int", v |-> n]
\* a string; s is a sequence of characters where the code inspects it
StrVal(s) == [t |-> "str", s |-> s]
\* a string holding a decimal number, which float() accepts
NumStr(v) == [t |-> "numstr", v |-> v]
\* true / false
Bool(b) == [t |-> "bool", b |-> b]
\* a list
List(items) == [t |-> "list", items |-> items]

IsNone(x) == x.t = "none"
\* d.get(key): a missing key reads as None
Get(x) == IF x.t = "missing" THEN None ELSE x
\* Python truth value
Truthy(x) ==
    CASE x.t \in {"none", "missing"} -> FALSE
      [] x.t \in {"num", "int", "numstr"} -> x.v # 0
      [] x.t = "str" -> Len(x.s) > 0
      [] x.t = "bool" -> x.b
      [] x.t = "list" -> Len(x.items) > 0
      [] x.t = "dict" -> Len(x.pairs) > 0
      [] OTHER -> TRUE
\* float(x) succeeds on numbers, booleans and numeric strings, raises
\* otherwise
CanFloat(x) == x.t \in {"num", "int", "numstr", "bool"}
FloatOf(x) == IF x.t = "int" THEN x.v * Unit
              ELSE IF x.t = "bool" THEN (IF x.b THEN Unit ELSE 0)
              ELSE x.v

Min(a, b) == IF a <= b THEN a ELSE b
Max(a, b) == IF a >= b THEN a ELSE b

\* str(i) for the small i the model uses
Digit(d) == <<"0", "1", "2", "3", "4", "5", "6", "7", "8", "9">>[d + 1]
Str(i) == IF i < 10 THEN <<Digit(i)>> ELSE <<Digit(i \div 10), Digit(i % 10)>>

\* sub in s (Python substring test)
Contains(sub, s) ==
    \E i \in 1..(Len(s) - Len(sub) + 1) : SubSeq(s, i, i + Len(sub) - 1) = sub

\* Python's round() of the rational p/q, q > 0: nearest integer, ties to even
RoundHalfEven(p, q) ==
    LET f == p \div q
        r == p % q
    IN  IF 2 * r < q THEN f
        ELSE IF 2 * r > q THEN f + 1
        ELSE IF f % 2 = 0 THEN f ELSE f + 1

\* ------------------------------------------------------------------------
\* Python dicts: insertion-ordered sequences of <<key, value>>
\* ------------------------------------------------------------------------
DictHas(d, k) == \E i \in 1..Len(d) : d[i][1] = k
DictGet(d, k) == d[CHOOSE i \in 1..Len(d) : d[i][1] = k][2]
DictSet(d, k, v) ==
    IF DictHas(d, k)
    THEN [i \in 1..Len(d) |-> IF d[i][1] = k THEN <<k, v>> ELSE d[i]]
    ELSE Append(d, <<k, v>>)
DictValues(d) == [i \in 1..Len(d) |-> d[i][2]]

RECURSIVE SumSeq(_)
SumSeq(s) == IF s = <<>> THEN 0 ELSE Head(s) + SumSeq(Tail(s))

\* ------------------------------------------------------------------------
\* ExamGrader.parse_grading_response and ExamGrader.grade_with_model
\* ------------------------------------------------------------------------
\* What a provider call can produce:
\*   [kind |-> "exception"]  the call raised
\*   [kind |-> "empty"]      an empty or refused completion ("")
\*   [kind |-> "prose"]      text from which no JSON object is recovered
\*   [kind |-> "object", score, is_correct, analysis, comment]
\*                           text from which this JSON object is recovered;
\*                           a field the object lacks is Missing
\*   [kind |-> "text", text] the completion itself, a sequence of lexemes

\* clean_analysis: None or "" gives ""; the analysis texts of the model hold
\* no markdown marker, so the substitutions leave them unchanged
clean_analysis(a) == IF Truthy(a) THEN a ELSE StrVal("")

\* process_result clamping from above only: min(score, max_score)
process_result_NoFloor(obj, max_score) ==
    [obj EXCEPT
        !.score = IF obj.score.t = "missing" THEN Missing
                  ELSE IF CanFloat(obj.score)
                       THEN Num(Min(FloatOf(obj.score), max_score))
                       ELSE Num(0),
        !.analysis = IF obj.analysis.t = "missing" THEN Missing
                     ELSE clean_analysis(obj.analysis)]

\* process_result: score coerced and clamped when the key is present
process_result(obj, max_score) ==
    [obj EXCEPT
        !.score = IF obj.score.t = "missing" THEN Missing
                  ELSE IF CanFloat(obj.score)
                       THEN Num(Max(0, Min(FloatOf(obj.score), max_score)))
                       ELSE Num(0),
        !.analysis = IF obj.analysis.t = "missing" THEN Missing
                     ELSE clean_analysis(obj.analysis)]

\* an object with no key is falsy: "if res:" rejects it
IsEmptyObject(obj) ==
    /\ obj.score.t = "missing"
    /\ obj.is_correct.t = "missing"
    /\ obj.analysis.t = "missing"
    /\ obj.comment.t = "missing"

\* ------------------------------------------------------------------------
\* The text of a provider answer, and json.loads
\* ------------------------------------------------------------------------
\* A text is a sequence of lexemes; the text is their concatenation.  A
\* lexeme is a string the parser never splits: one punctuation character,
\* one whitespace character, a whole word or a whole number (so no two
\* words or numbers are adjacent in a text).
QUOTE == "\""
TABCH == "\t"
\* the two characters backslash and t
ESCT == "\\t"
\* the fence of three backquotes
FENCE == "'''"
\* str.rstrip() and \s
Whitespace == {" ", "\n", TABCH}
\* the whitespace json.loads sees: try_parse has replaced every tab
JsonWhitespace == {" ", "\n"}
\* the number lexemes of the model and float() of each, in tenths
NumberLexemes == {"-1", "0", "3", "8", "12"}
FloatOfLexeme(c) ==
    CASE c = "-1" -> 0 - Unit
      [] c = "0" -> 0
      [] c = "3" -> 3 * Unit
      [] c = "8" -> 8 * Unit
      [] c = "12" -> 12 * Unit

\* a parsed JSON object: the (key, value) pairs in order
Dict(pairs) == [t |-> "dict", pairs |-> pairs]
\* the outcome of a parsing step: the value and the position after it
Fail == [ok |-> FALSE, val |-> None, next |-> 0]
Ok(v, n) == [ok |-> TRUE, val |-> v, next |-> n]

RECURSIVE SkipWs(_, _)
SkipWs(s, i) ==
    IF i <= Len(s) /\ s[i] \in JsonWhitespace THEN SkipWs(s, i + 1) ELSE i

\* the position of the first QUOTE at or after i, 0 when there is none
NextQuote(s, i) ==
    IF \E k \in i..Len(s) : s[k] = QUOTE
    THEN CHOOSE k \in i..Len(s) :
            s[k] = QUOTE /\ \A m \in i..(k - 1) : s[m] # QUOTE
    ELSE 0

\* the characters of a string literal: the escape \t is a tab
Unescape(content) ==
    [k \in 1..Len(content) |->
        IF content[k] = ESCT THEN TABCH ELSE content[k]]
\* a string value; one holding just a number is a numeric string
StringValue(content) ==
    IF Len(content) = 1 /\ content[1] \in NumberLexemes
    THEN NumStr(FloatOfLexeme(content[1]))
    ELSE StrVal(Unescape(content))

RECURSIVE ParseValue(_, _)
RECURSIVE ParseMembers(_, _, _, _)
RECURSIVE ParseElements(_, _, _, _)

\* JSONDecoder.scan_once at position i
ParseValue(s, i) ==
    LET j == SkipWs(s, i)
    IN  IF j > Len(s) THEN Fail
        ELSE CASE s[j] = "{" -> ParseMembers(s, j + 1, <<>>, TRUE)
               [] s[j] = "[" -> ParseElements(s, j + 1, <<>>, TRUE)
               [] s[j] = QUOTE ->
                    LET k == NextQuote(s, j + 1)
                    IN  IF k = 0 THEN Fail
                        ELSE Ok(StringValue(SubSeq(s, j + 1, k - 1)), k + 1)
               [] s[j] \in NumberLexemes -> Ok(Num(FloatOfLexeme(s[j])), j + 1)
               [] s[j] = "true" -> Ok(Bool(TRUE), j + 1)
               [] s[j] = "false" -> Ok(Bool(FALSE), j + 1)
               [] s[j] = "null" -> Ok(None, j + 1)
               [] OTHER -> Fail

\* the members of an object after "{" or after a ","
ParseMembers(s, i, acc, first) ==
    LET j == SkipWs(s, i)
    IN  IF j > Len(s) THEN Fail
        ELSE IF s[j] = "}" THEN (IF first THEN Ok(Dict(acc), j + 1) ELSE Fail)
        ELSE IF s[j] # QUOTE THEN Fail
        ELSE LET k == NextQuote(s, j + 1)
             IN  IF k = 0 THEN Fail
                 ELSE LET c == SkipWs(s, k + 1)
                      IN  IF c > Len(s) \/ s[c] # ":" THEN Fail
                          ELSE LET v == ParseValue(s, c + 1)
                                   e == SkipWs(s, v.next)
                                   acc2 == DictSet(acc,
                                              Unescape(SubSeq(s, j + 1, k - 1)),
                                              v.val)
                               IN  IF ~v.ok \/ e > Len(s) THEN Fail
                                   ELSE IF s[e] = ","
                                   THEN ParseMembers(s, e + 1, acc2, FALSE)
                                   ELSE IF s[e] = "}"
                                   THEN Ok(Dict(acc2), e + 1)
                                   ELSE Fail

\* the elements of an array after "[" or after a ","
ParseElements(s, i, acc, first) ==
    LET j == SkipWs(s, i)
    IN  IF j > Len(s) THEN Fail
        ELSE IF s[j] = "]" /\ first THEN Ok(List(acc), j + 1)
        ELSE LET v == ParseValue(s, j)
                 e == SkipWs(s, v.next)
             IN  IF ~v.ok \/ e > Len(s) THEN Fail
                 ELSE IF s[e] = ","
                 THEN ParseElements(s, e + 1, Append(acc, v.val), FALSE)
                 ELSE IF s[e] = "]"
                 THEN Ok(List(Append(acc, v.val)), e + 1)
                 ELSE Fail

\* json.loads(text, strict=False): the value, or Fail for JSONDecodeError
\* (also when data follows the value)
WholeText(s, v) == IF v.ok /\ SkipWs(s, v.next) > Len(s) THEN v ELSE Fail
json_loads(s) == WholeText(s, ParseValue(s, 1))

\* text.replace('\t', '\\t')
ReplaceTabs(text) ==
    [k \in 1..Len(text) |-> IF text[k] = TABCH THEN ESCT ELSE text[k]]
\* try_parse: tabs replaced by the escape, then json.loads; None on failure
ValueOrNone(v) == IF v.ok THEN v.val ELSE None
try_parse(text) == ValueOrNone(json_loads(ReplaceTabs(text)))

\* ------------------------------------------------------------------------
\* parse_grading_response on a text
\* ------------------------------------------------------------------------
\* result.get(key) of a parsed object: Missing when the key is absent
Field(pairs, key) ==
    IF DictHas(pairs, key) THEN DictGet(pairs, key) ELSE Missing
\* the four keys of a parsed object that the program reads
ObjectOf(pairs) ==
    [score |-> Field(pairs, <<"score">>),
     is_correct |-> Field(pairs, <<"is_correct">>),
     analysis |-> Field(pairs, <<"analysis">>),
     comment |-> Field(pairs, <<"comment">>)]

\* process_value accepting every truthy value, the isinstance test dropped
process_value_AnyType(res, max_score) ==
    IF ~Truthy(res) THEN None
    ELSE [t |-> "obj"] @@
         process_result(ObjectOf(IF res.t = "dict" THEN res.pairs ELSE <<>>),
                        max_score)

\* process_result from its first line: a falsy value and a value that is
\* not a dict give None
process_value(res, max_score) ==
    IF ~Truthy(res) \/ res.t # "dict" THEN None
    ELSE [t |-> "obj"] @@ process_result(ObjectOf(res.pairs), max_score)

\* str.find, str.rfind (0 when absent), str.count, str.rstrip
Find(s, c) ==
    IF \E k \in 1..Len(s) : s[k] = c
    THEN CHOOSE k \in 1..Len(s) : s[k] = c /\ \A m \in 1..(k - 1) : s[m] # c
    ELSE 0
RFind(s, c) ==
    IF \E k \in 1..Len(s) : s[k] = c
    THEN CHOOSE k \in 1..Len(s) :
            s[k] = c /\ \A m \in (k + 1)..Len(s) : s[m] # c
    ELSE 0
Count(s, c) == Cardinality({k \in 1..Len(s) : s[k] = c})
RECURSIVE RStrip(_)
RStrip(s) ==
    IF s # <<>> /\ s[Len(s)] \in Whitespace
    THEN RStrip(SubSeq(s, 1, Len(s) - 1)) ELSE s
RECURSIVE LStrip(_)
LStrip(s) == IF s # <<>> /\ Head(s) \in Whitespace THEN LStrip(Tail(s)) ELSE s

\* the group captured between two fences: an optional "json" after the
\* opening fence and the whitespace at both ends are left out
Captured(content) ==
    RStrip(LStrip(IF content # <<>> /\ Head(content) \in {"json", "JSON"}
                  THEN Tail(content) ELSE content))
\* re.findall(code_block_pattern, ...) from position i: the fences pair
\* up from left to right
RECURSIVE CodeBlocks(_, _)
CodeBlocks(s, i) ==
    LET rest == SubSeq(s, i, Len(s))
        f1 == Find(rest, FENCE)
        after == SubSeq(rest, f1 + 1, Len(rest))
        f2 == Find(after, FENCE)
    IN  IF f1 = 0 \/ f2 = 0 THEN <<>>
        ELSE <<Captured(SubSeq(after, 1, f2 - 1))>>
             \o CodeBlocks(s, i + f1 + f2)

\* len(block), in characters
CharLen(block) == SumSeq([k \in 1..Len(block) |-> Len(block[k])])
\* sorted(code_blocks, key=len, reverse=True): stable, longest first
RECURSIVE InsertByLen(_, _)
InsertByLen(b, sorted) ==
    IF sorted = <<>> \/ CharLen(Head(sorted)) <= CharLen(b)
    THEN <<b>> \o sorted
    ELSE <<Head(sorted)>> \o InsertByLen(b, Tail(sorted))
RECURSIVE SortByLen(_)
SortByLen(blocks) ==
    IF blocks = <<>> THEN <<>>
    ELSE InsertByLen(Head(blocks), SortByLen(Tail(blocks)))

\* lines 516-522 and 526-533: the slice from the first "{" to the last
\* "}", parsed and processed; None when any step gives nothing
\* "if res:" and then process_result(res)
Processed(res, max_score) ==
    IF Truthy(res) THEN process_value(res, max_score) ELSE None
SliceAt(text, start, end, max_score) ==
    IF start # 0 /\ end > start
    THEN Processed(try_parse(SubSeq(text, start, end)), max_score)
    ELSE None
SliceResult(text, max_score) ==
    SliceAt(text, Find(text, "{"), RFind(text, "}"), max_score)

\* the first of three attempts, in order, that gives a result
FirstResult(first, second, third) ==
    IF ~IsNone(first) THEN first
    ELSE IF ~IsNone(second) THEN second
    ELSE third

\* the loop over the sorted blocks: the first valid result
RECURSIVE FirstValid(_, _)
FirstValid(blocks, max_score) ==
    IF blocks = <<>> THEN None
    ELSE FirstResult(SliceResult(Head(blocks), max_score),
                     FirstValid(Tail(blocks), max_score), None)

\* lines 541-547: trailing whitespace removed, a quote appended when their
\* number is odd, then the missing closing braces
Repaired(json_str) ==
    LET stripped == RStrip(json_str)
        quoted == IF Count(stripped, QUOTE) % 2 # 0
                  THEN Append(stripped, QUOTE) ELSE stripped
        deficit == Count(quoted, "{") - Count(quoted, "}")
    IN  quoted \o [k \in 1..Max(deficit, 0) |-> "}"]

\* parse_grading_response(response_text, max_score), lines 509-553
\* lines 524-539: json_str when the slice gave no result
JsonStr(text, start_idx, end_idx) ==
    IF start_idx = 0 THEN text
    ELSE IF end_idx > start_idx THEN SubSeq(text, start_idx, end_idx)
    ELSE SubSeq(text, start_idx, Len(text))
parse_response_text(text, max_score) ==
    FirstResult(
        FirstValid(SortByLen(CodeBlocks(text, 1)), max_score),
        SliceResult(text, max_score),
        Processed(try_parse(Repaired(
                      JsonStr(text, Find(text, "{"), RFind(text, "}")))),
                  max_score))

\* parse_grading_response: the processed object, or None
parse_grading_response(resp, max_score) ==
    IF resp.kind = "text" THEN parse_response_text(resp.text, max_score)
    ELSE IF resp.kind = "object" /\ ~IsEmptyObject(resp)
    THEN [t |-> "obj"] @@ process_result(
            [score |-> resp.score, is_correct |-> resp.is_correct,
             analysis |-> resp.analysis, comment |-> resp.comment], max_score)
    ELSE None

\* FailedCall without the 'score': 0 entry
FailedCall_NoScore(error, comment) ==
    [success |-> Bool(FALSE), error |-> StrVal(error), score |-> Missing,
     is_correct |-> Bool(FALSE), analysis |-> Missing,
     comment |-> StrVal(comment), model_used |-> Missing,
     max_score |-> Missing]

\* the result dict of a failed call
FailedCall(error, comment) ==
    [success |-> Bool(FALSE), error |-> StrVal(error), score |-> Num(0),
     is_correct |-> Bool(FALSE), analysis |-> Missing,
     comment |-> StrVal(comment), model_used |-> Missing,
     max_score |-> Missing]

\* grade_with_model, for a provider whose credential is configured
\* lines 433-447: what grade_with_model returns for a parse result
CallResult(result, model_name, max_score) ==
    IF IsNone(result)
    THEN FailedCall("cannot parse model response",
                    "model returned no valid JSON")
    ELSE [success |-> Bool(TRUE), error |-> Missing,
          score |-> result.score, is_correct |-> result.is_correct,
          analysis |-> result.analysis, comment |-> result.comment,
          model_used |-> StrVal(model_name),
          max_score |-> Num(max_score)]
grade_with_model(resp, model_name, max_score) ==
    IF resp.kind = "exception"
    THEN FailedCall("grade failed: call raised", "model call exception")
    ELSE CallResult(parse_grading_response(resp, max_score), model_name,
                    max_score)

\* grade_with_model from its first line (142-149): a provider without a
\* credential gives a failed call and no request is made
GradeWithModel(api_keys, resp, model_name, max_score) ==
    IF \A i \in 1..Len(api_keys) : api_keys[i] # model_name
    THEN FailedCall("no API key for the model", "API key not configured")
    ELSE grade_with_model(resp, model_name, max_score)

\* The processed-image artifact of a grade_with_model call: cv2.imwrite
\* (line 160) runs once the credential is found; os.remove is reached only
\* in the except clause (lines 449-461), not on the returns of lines
\* 421-447.
TempArtifact(api_keys, resp, model_name) ==
    IF \A i \in 1..Len(api_keys) : api_keys[i] # model_name
    THEN [written |-> FALSE, removal_attempted |-> FALSE]
    ELSE [written |-> TRUE, removal_attempted |-> resp.kind = "exception"]

\* what grade_exam_with_multiple_models records for a failed call
ZeroResult(result) ==
    [success |-> Missing, error |-> Missing, score |-> Num(0),
     is_correct |-> Bool(FALSE), analysis |-> Missing,
     comment |-> Get(result.error), model_used |-> Missing,
     max_score |-> Missing]

\* ------------------------------------------------------------------------
\* ExamGrader.analyze_exam_structure and the question-list construction
\* ------------------------------------------------------------------------
\* What the discovery call can produce:
\*   [kind |-> "exception"]  the call raised
\*   [kind |-> "prose"]      text from which no JSON object is recovered
\*   [kind |-> "object", groups, total_questions, question_numbers]
\*                           the JSON object recovered from the text

\* Chinese characters are written as one-token strings: "xuan","ze" is the
\* keyword for multiple choice, "tian","kong" for fill-in, "pan","duan" for
\* true/false.
KwChoice == <<"xuan", "ze">>
KwFill == <<"tian", "kong">>
KwJudge == <<"pan", "duan">>
\* group.get('name', <unknown section>)
UnknownGroup == <<"wei", "zhi", "da", "ti">>

\* SyntheticQuestion numbering from 0, as range(10) would
SyntheticQuestion_ZeroBased(i) ==
    [id |-> StrVal(Str(i - 1)), group |-> None, unique_id |-> Str(i - 1),
     box_2d |-> Missing, score |-> None]

\* a synthetic ungrouped question
SyntheticQuestion(i) ==
    [id |-> StrVal(Str(i)), group |-> None, unique_id |-> Str(i),
     box_2d |-> Missing, score |-> None]
SyntheticQuestions(n) == [i \in 1..n |-> SyntheticQuestion(i)]

\* analyze_exam_structure: a dict with 'success'; every exception inside
\* is caught and reported as success = False.  An object with none of the
\* three keys stands for the empty object, which "if not result" rejects.
analyze_exam_structure(resp) ==
    IF /\ resp.kind = "object"
       /\ ~(/\ resp.groups.t = "missing"
            /\ resp.total_questions.t = "missing"
            /\ resp.question_numbers.t = "missing")
    THEN [success |-> TRUE, groups |-> resp.groups,
          total_questions |-> resp.total_questions,
          question_numbers |-> resp.question_numbers]
    ELSE [success |-> FALSE, groups |-> Missing,
          total_questions |-> Missing, question_numbers |-> Missing]

\* an f-string's rendering of a value
Format(x) ==
    CASE x.t = "str" -> x.s
      [] x.t = "int" -> Str(x.v)
      [] x.t = "none" -> <<"N", "o", "n", "e">>
      [] OTHER -> <<>>

\* for key, score in text_scores.items(): if key in group_name: ... break
RECURSIVE FirstKeywordScore(_, _)
FirstKeywordScore(text_scores, name) ==
    IF text_scores = <<>> THEN None
    ELSE IF Contains(Head(text_scores)[1], name) THEN Head(text_scores)[2]
         ELSE FirstKeywordScore(Tail(text_scores), name)

\* lines 1012-1028: the point value of one question of a group;
\* raised = a TypeError from "key in group_name" / '"..." in group_name'
ResolveScore(q_score, group_default_score, group_name, text_scores) ==
    LET s1 == IF IsNone(Get(q_score)) THEN Get(group_default_score)
              ELSE q_score
        scan == IsNone(s1) /\ Truthy(group_name) /\ text_scores # <<>>
        s2 == IF scan /\ group_name.t = "str"
              THEN LET m == FirstKeywordScore(text_scores, group_name.s)
                   IN  IF IsNone(m) THEN s1 ELSE m
              ELSE s1
        s3 == IF ~IsNone(s2) \/ group_name.t # "str" THEN s2
              ELSE IF Contains(KwChoice, group_name.s) THEN Num(ChoiceScore)
              ELSE IF Contains(KwFill, group_name.s) THEN Num(FillScore)
              ELSE IF Contains(KwJudge, group_name.s) THEN Num(JudgeScore)
              ELSE None
    IN  [raised |-> \/ scan /\ group_name.t # "str"
                    \/ IsNone(s2) /\ group_name.t # "str",
         score |-> s3]

\* for q in group.get('questions', []): ...
RECURSIVE GroupQuestions(_, _, _, _)
GroupQuestions(group_name, group_default_score, qitems, text_scores) ==
    IF qitems = <<>> THEN [raised |-> FALSE, qs |-> <<>>]
    ELSE LET q == Head(qitems)
         IN  IF q.t # "obj" THEN [raised |-> TRUE, qs |-> <<>>]
             ELSE LET r == ResolveScore(q.score, group_default_score,
                                        group_name, text_scores)
                      q_id == IF q.id.t = "missing" THEN StrVal(<<>>) ELSE q.id
                      item == [id |-> q_id, group |-> group_name,
                               unique_id |-> Format(group_name) \o <<"-">>
                                             \o Format(q_id),
                               box_2d |-> Get(q.box_2d), score |-> r.score]
                      rest == GroupQuestions(group_name, group_default_score,
                                             Tail(qitems), text_scores)
                  IN  IF r.raised THEN [raised |-> TRUE, qs |-> <<>>]
                      ELSE [raised |-> rest.raised,
                            qs |-> <<item>> \o rest.qs]

\* for group in structure_result['groups']: ...
RECURSIVE GroupsQuestions(_, _)
GroupsQuestions(groups, text_scores) ==
    IF groups = <<>> THEN [raised |-> FALSE, qs |-> <<>>]
    ELSE LET group == Head(groups)
         IN  IF group.t # "obj" THEN [raised |-> TRUE, qs |-> <<>>]
             ELSE LET group_name == IF group.name.t = "missing"
                                    THEN StrVal(UnknownGroup) ELSE group.name
                      questions == IF group.questions.t = "missing"
                                   THEN List(<<>>) ELSE group.questions
                  IN  IF questions.t # "list"
                      THEN [raised |-> TRUE, qs |-> <<>>]
                      ELSE LET here == GroupQuestions(group_name,
                                           group.default_score,
                                           questions.items, text_scores)
                               rest == GroupsQuestions(Tail(groups),
                                                       text_scores)
                           IN  IF here.raised
                               THEN [raised |-> TRUE, qs |-> <<>>]
                               ELSE [raised |-> rest.raised,
                                     qs |-> here.qs \o rest.qs]

\* lines 1038-1041: no 'groups' key.  The default of .get('question_numbers')
\* is evaluated even when the key is present, so range(1, total_questions+1)
\* needs an integer total_questions whenever the key 'groups' is absent.
UngroupedQuestions(sr) ==
    LET total_questions == IF sr.total_questions.t = "missing"
                           THEN IntVal(FallbackCount) ELSE sr.total_questions
    IN  IF total_questions.t # "int" THEN [raised |-> TRUE, qs |-> <<>>]
        ELSE IF sr.question_numbers.t = "missing"
        THEN [raised |-> FALSE,
              qs |-> SyntheticQuestions(Max(total_questions.v, 0))]
        ELSE IF sr.question_numbers.t # "list"
        THEN [raised |-> TRUE, qs |-> <<>>]
        ELSE [raised |-> FALSE,
              qs |-> [i \in 1..Len(sr.question_numbers.items) |->
                        [id |-> StrVal(Format(sr.question_numbers.items[i])),
                         group |-> None,
                         unique_id |-> Format(sr.question_numbers.items[i]),
                         box_2d |-> Missing, score |-> None]]]

\* lines 998-1047: questions_to_grade after the discovery call;
\* raised = an exception leaves grade_exam_with_multiple_models
BuildQuestions(sr, text_scores) ==
    IF ~sr.success
    THEN [raised |-> FALSE, qs |-> SyntheticQuestions(FallbackCount)]
    ELSE LET found == IF sr.groups.t = "missing" THEN UngroupedQuestions(sr)
                      ELSE IF sr.groups.t # "list"
                           THEN [raised |-> TRUE, qs |-> <<>>]
                           ELSE GroupsQuestions(sr.groups.items, text_scores)
             total_qs == IF sr.total_questions.t = "missing"
                         THEN IntVal(0) ELSE sr.total_questions
         IN  IF found.raised \/ found.qs # <<>> THEN found
             ELSE IF total_qs.t # "int" THEN [raised |-> TRUE, qs |-> <<>>]
             ELSE IF total_qs.v > 0
                  THEN [raised |-> FALSE, qs |-> SyntheticQuestions(total_qs.v)]
                  ELSE [raised |-> FALSE, qs |-> <<>>]

\* ------------------------------------------------------------------------
\* ExamGrader.combine_results_v2
\* ------------------------------------------------------------------------
\* lines 1066-1073 and 1152-1159: the point value used for a question
ResolveMaxScore(score, default_max_score) ==
    IF IsNone(Get(score)) THEN default_max_score
    ELSE IF CanFloat(score) THEN FloatOf(score)
    ELSE default_max_score

\* q_info_map.get(q_id, {}): the last question with that (truthy) unique_id
QInfo(questions_info, q_id) ==
    LET hits == {i \in 1..Len(questions_info) :
                    /\ questions_info[i].unique_id # <<>>
                    /\ questions_info[i].unique_id = q_id}
    IN  IF hits = {} THEN [score |-> None, box_2d |-> None]
        ELSE LET q == questions_info[CHOOSE i \in hits :
                                        \A j \in hits : j <= i]
             IN  [score |-> q.score, box_2d |-> q.box_2d]

\* FinalScore averaging over the non-zero scores only
FinalScore_NonZeroMean(scores, current_max_score) ==
    LET nonzero == SelectSeq(scores, LAMBDA x : x # 0)
    IN  IF Len(nonzero) > 0
        THEN Max(0, Min(RoundHalfEven(2 * SumSeq(nonzero),
                                      Len(nonzero) * Unit) * Half,
                        current_max_score))
        ELSE 0

\* FinalScore without the rounding to 0.5
FinalScore_Unrounded(scores, current_max_score) ==
    IF Len(scores) > 0
    THEN Max(0, Min(SumSeq(scores) \div Len(scores), current_max_score))
    ELSE 0

\* FinalScore without the upper clamp
FinalScore_Unclamped(scores, current_max_score) ==
    IF Len(scores) > 0
    THEN Max(0, RoundHalfEven(2 * SumSeq(scores), Len(scores) * Unit) * Half)
    ELSE 0

\* FinalScore with int(avg_score * 2) / 2: cut down to 0.5, not rounded
FinalScore_Floored(scores, current_max_score) ==
    IF Len(scores) > 0
    THEN Max(0, Min(((2 * SumSeq(scores)) \div (Len(scores) * Unit)) * Half,
                    current_max_score))
    ELSE 0

\* lines 1163-1170: mean of the recorded scores, rounded to 0.5, clamped
FinalScore(scores, current_max_score) ==
    IF Len(scores) > 0
    THEN LET rounded == RoundHalfEven(2 * SumSeq(scores), Len(scores) * Unit)
         IN  Max(0, Min(rounded * Half, current_max_score))
    ELSE 0

\* IsCorrect with the comparison turned round
IsCorrect_Flipped(final_score, current_max_score) ==
    10 * final_score <= 6 * current_max_score

\* is_correct = final_score >= current_max_score * 0.6
IsCorrect(final_score, current_max_score) ==
    10 * final_score >= 6 * current_max_score

\* Verdict with "elif final_score >= 0" for the third comment
Verdict_ZeroPartial(final_score, current_max_score) ==
    IF IsCorrect(final_score, current_max_score) THEN "correct"
    ELSE IF 10 * final_score >= 5 * current_max_score THEN "mostly correct"
    ELSE IF final_score >= 0 THEN "partially correct"
    ELSE "incorrect"

\* lines 1174-1181
Verdict(final_score, current_max_score) ==
    IF IsCorrect(final_score, current_max_score) THEN "correct"
    ELSE IF 10 * final_score >= 5 * current_max_score THEN "mostly correct"
    ELSE IF final_score > 0 THEN "partially correct"
    ELSE "incorrect"

\* Accuracy as a percentage
Accuracy_Percent(total_score, max_total_score) ==
    IF max_total_score > 0
    THEN <<100 * total_score, max_total_score>> ELSE <<0, 1>>

\* line 1216: total_score / max_total_score if max_total_score > 0 else 0,
\* as the fraction <<numerator, denominator>>
Accuracy(total_score, max_total_score) ==
    IF max_total_score > 0
    THEN <<total_score, max_total_score>> ELSE <<0, 1>>

RECURSIVE LongestComment(_, _)
LongestComment(results, best) ==
    IF results = <<>> THEN best
    ELSE LET c == Get(Head(results).comment)
         IN  LongestComment(Tail(results),
                 IF Truthy(c) /\ Len(c.s) > Len(best) THEN c.s ELSE best)

\* ChosenAnalysis taking the last non-empty analysis
ChosenAnalysis_Last(results) ==
    LET withAnalysis == {i \in 1..Len(results) :
                            Truthy(Get(results[i].analysis))}
    IN  IF withAnalysis # {}
        THEN results[CHOOSE i \in withAnalysis :
                        \A j \in withAnalysis : j <= i].analysis.s
        ELSE LongestComment(results, "")

\* lines 1183-1192: the first non-empty analysis, else the longest comment
ChosenAnalysis(results) ==
    LET withAnalysis == {i \in 1..Len(results) :
                            Truthy(Get(results[i].analysis))}
    IN  IF withAnalysis # {}
        THEN results[CHOOSE i \in withAnalysis :
                        \A j \in withAnalysis : i <= j].analysis.s
        ELSE LongestComment(results, "")

\* LastDash as split('-', 1) would have it: the first '-'
LastDash_First(s) ==
    IF \E i \in 1..Len(s) : s[i] = "-"
    THEN CHOOSE i \in 1..Len(s) :
            s[i] = "-" /\ \A j \in 1..(i - 1) : s[j] # "-"
    ELSE 0

\* str.rsplit('-', 1): the position of the last '-' in s, 0 if none
LastDash(s) ==
    IF \E i \in 1..Len(s) : s[i] = "-"
    THEN CHOOSE i \in 1..Len(s) :
            s[i] = "-" /\ \A j \in (i + 1)..Len(s) : s[j] # "-"
    ELSE 0

\* one entry of final_results
AggregateQuestion(q_id, question_results, q_info, default_max_score) ==
    LET current_max_score == ResolveMaxScore(q_info.score, default_max_score)
        results == DictValues(question_results)
        scores == [i \in 1..Len(results) |-> results[i].score.v]
        final_score == FinalScore(scores, current_max_score)
        d == LastDash(q_id)
    IN  [question_id |-> q_id,
         score |-> final_score,
         max_score |-> current_max_score,
         is_correct |-> IsCorrect(final_score, current_max_score),
         comment |-> Verdict(final_score, current_max_score),
         analysis |-> ChosenAnalysis(results),
         model_scores |-> question_results,
         box_2d |-> q_info.box_2d,
         group_name |-> IF d > 0 THEN StrVal(SubSeq(q_id, 1, d - 1))
                        ELSE Missing,
         sub_id |-> IF d > 0 THEN StrVal(SubSeq(q_id, d + 1, Len(q_id)))
                    ELSE Missing]

\* the exam report
combine_results_v2(all_results, questions_info, default_max_score) ==
    LET details == [i \in 1..Len(all_results) |->
                      <<all_results[i][1],
                        AggregateQuestion(all_results[i][1], all_results[i][2],
                            QInfo(questions_info, all_results[i][1]),
                            default_max_score)>>]
        total_score == SumSeq([i \in 1..Len(details) |-> details[i][2].score])
        max_total_score ==
            SumSeq([i \in 1..Len(details) |-> details[i][2].max_score])
    IN  [details |-> details,
         total_score |-> total_score,
         max_total_score |-> max_total_score,
         accuracy |-> Accuracy(total_score, max_total_score),
         correct_count |-> Cardinality({i \in 1..Len(details) :
                                          details[i][2].is_correct}),
         total_count |-> Len(details)]

\* ------------------------------------------------------------------------
\* State
\* ------------------------------------------------------------------------
VARIABLES
    grading_tasks,      \* the registry: task id -> entry (module global)
    polled,             \* the last response of get_progress
    pc,                 \* where the worker thread of the task is
    args,               \* the arguments of run_grading_task and the
                        \* credentials the ExamGrader finds
    available_models,   \* grade_exam_with_multiple_models: locals
    questions_to_grade,
    index,
    midx,
    question_results,
    all_results,
    model_results,
    report,             \* <<>> or <<the returned report>>
    structure_result,   \* <<>> or <<what analyze_exam_structure returned>>
    last_call,          \* <<>> or <<the latest grade_with_model call: the
                        \* provider, its answer, the returned result, and
                        \* what the call did with its temporary image>>
    cb,                 \* the progress_callback call in progress
    exc,                \* the message of the exception being handled
    discovery_calls,    \* calls of analyze_exam_structure so far
    scoring_calls,      \* calls of grade_with_model so far
    report_saved,       \* save_grading_report has written the file
    parsed,             \* <<>> or <<a direct call of
                        \* parse_grading_response: its arguments and result>>
    combined            \* the latest direct calls of combine_results_v2,
                        \* newest first: their arguments and results

vars == <<grading_tasks, polled, pc, args, available_models,
          questions_to_grade, index, midx, question_results, all_results,
          model_results, report, structure_result, last_call, cb, exc,
          discovery_calls, scoring_calls, report_saved, parsed, combined>>

locals == <<available_models, questions_to_grade, index, midx,
            question_results, all_results, model_results, report,
            structure_result, last_call>>
counters == <<discovery_calls, scoring_calls, report_saved>>

\* str(uuid.uuid4()) of the one task of the model
TaskId == "t1"
\* a key the entry does not have
Absent == "ABSENT"
NoTasks == [x \in {} |-> x]
NoCallback == [percent |-> 0, message |-> "", ret |-> ""]

\* grading_tasks[task_id] = {...} in upload_file
NewEntry ==
    [status |-> "processing", progress |-> 0, message |-> "initializing",
     filename |-> "final.jpg", error |-> Absent, result_filename |-> Absent,
     report_path |-> Absent, marked_image_filename |-> Absent]

Registered == TaskId \in DOMAIN grading_tasks

Init ==
    /\ grading_tasks = NoTasks
    /\ polled = [t |-> "none"]
    /\ pc = "idle"
    /\ args = <<>>
    /\ available_models = <<>>
    /\ questions_to_grade = <<>>
    /\ index = 0
    /\ midx = 0
    /\ question_results = <<>>
    /\ all_results = <<>>
    /\ model_results = <<>>
    /\ report = <<>>
    /\ structure_result = <<>>
    /\ last_call = <<>>
    /\ cb = NoCallback
    /\ exc = ""
    /\ discovery_calls = 0
    /\ scoring_calls = 0
    /\ report_saved = FALSE
    /\ parsed = <<>>
    /\ combined = <<>>

\* ------------------------------------------------------------------------
\* routes: upload_file, get_progress, clear_history
\* ------------------------------------------------------------------------
\* upload_file: the entry is created, then the worker thread is started.
\* U is the universe the inputs of the run are drawn from.
Submit(U) ==
    /\ pc = "idle"
    /\ \E qc \in U.counts, ms \in U.max_scores, sel \in U.selections,
          keys \in U.api_keys, ts \in U.text_scores :
          args' = [question_count |-> qc, max_score |-> ms,
                   selected_models |-> sel, api_keys |-> keys,
                   text_scores |-> ts]
    /\ grading_tasks' = (TaskId :> NewEntry)
    /\ pc' = "start"
    /\ UNCHANGED <<polled, locals, cb, exc, counters, parsed, combined>>

\* get_progress: task = grading_tasks.get(task_id); jsonify(task)
Poll ==
    /\ polled' = IF Registered
                 THEN [t |-> "task", task |-> grading_tasks[TaskId]]
                 ELSE [t |-> "not_found"]
    /\ UNCHANGED <<grading_tasks, pc, args, locals, cb, exc, counters,
                   parsed, combined>>

\* clear_history: grading_tasks.clear()
ClearHistory ==
    /\ grading_tasks' = NoTasks
    /\ UNCHANGED <<polled, pc, args, locals, cb, exc, counters,
                   parsed, combined>>

\* ------------------------------------------------------------------------
\* run_grading_task.progress_callback
\* ------------------------------------------------------------------------
\* update_progress(percent, msg), then continue at ret
Call(percent, message, ret) ==
    /\ cb' = [percent |-> percent, message |-> message, ret |-> ret]
    /\ pc' = "cb_check"

\* Raise with "except Exception: pass": the exception is dropped
Raise_Dropped(message) ==
    /\ exc' = message
    /\ pc' = "finished"

\* an exception reaches the except clause of run_grading_task
Raise(message) ==
    /\ exc' = message
    /\ pc' = "exc_status"

\* if task_id in grading_tasks:
CallbackCheck ==
    /\ pc = "cb_check"
    /\ pc' = IF Registered THEN "cb_progress" ELSE cb.ret
    /\ UNCHANGED <<grading_tasks, polled, args, locals, cb, exc, counters,
                   parsed, combined>>

\* grading_tasks[task_id]['progress'] = percent
CallbackProgress ==
    /\ pc = "cb_progress"
    /\ IF Registered
       THEN /\ grading_tasks' =
                  [grading_tasks EXCEPT ![TaskId].progress = cb.percent]
            /\ pc' = "cb_message"
            /\ exc' = exc
       ELSE /\ Raise("KeyError")
            /\ UNCHANGED grading_tasks
    /\ UNCHANGED <<polled, args, locals, cb, counters, parsed, combined>>

\* grading_tasks[task_id]['message'] = message
CallbackMessage ==
    /\ pc = "cb_message"
    /\ IF Registered
       THEN /\ grading_tasks' =
                  [grading_tasks EXCEPT ![TaskId].message = cb.message]
            /\ pc' = cb.ret
            /\ exc' = exc
       ELSE /\ Raise("KeyError")
            /\ UNCHANGED grading_tasks
    /\ UNCHANGED <<polled, args, locals, cb, counters, parsed, combined>>

\* ------------------------------------------------------------------------
\* ExamGrader.grade_exam_with_multiple_models
\* ------------------------------------------------------------------------
\* [m for m in selected_models if m in available_keys]
RECURSIVE Filter(_, _)
Filter(selected, keys) ==
    IF selected = <<>> THEN <<>>
    ELSE IF \E i \in 1..Len(keys) : keys[i] = Head(selected)
         THEN <<Head(selected)>> \o Filter(Tail(selected), keys)
         ELSE Filter(Tail(selected), keys)

\* AvailableModels without the credential filter on the selection
AvailableModels_Unfiltered(selected_models, api_keys) ==
    IF selected_models # <<>> THEN selected_models ELSE api_keys

\* lines 969-974
AvailableModels(selected_models, api_keys) ==
    IF selected_models # <<>> THEN Filter(selected_models, api_keys)
    ELSE api_keys

\* default_max_score = max_score if max_score is not None else 10.0
default_max_score ==
    IF IsNone(args.max_score) THEN DefaultMaxScore ELSE args.max_score.v

\* update_progress(5, ...)
Start ==
    /\ pc = "start"
    /\ Call(5, "initializing engine", "models")
    /\ UNCHANGED <<grading_tasks, polled, args, locals, exc, counters,
                   parsed, combined>>

\* lines 951-1056 up to the discovery call: the provider check, and the
\* synthetic list when question_count is given
SelectModels ==
    /\ pc = "models"
    /\ LET am == AvailableModels(args.selected_models, args.api_keys)
       IN  /\ available_models' = am
           /\ IF am = <<>>
              THEN /\ pc' = "fail_status"
                   /\ UNCHANGED <<cb, questions_to_grade>>
              ELSE IF IsNone(args.question_count)
              THEN /\ Call(10, "analyzing structure", "discover")
                   /\ UNCHANGED questions_to_grade
              ELSE /\ questions_to_grade' =
                         SyntheticQuestions(Max(args.question_count.v, 0))
                   /\ Call(20, "questions identified", "question")
    /\ UNCHANGED <<grading_tasks, polled, args, index, midx,
                   question_results, all_results, model_results, report,
                   structure_result, last_call, exc, counters,
                   parsed, combined>>

\* lines 992-1056: the discovery call and the question list built from it
Discover(U) ==
    /\ pc = "discover"
    /\ discovery_calls' = discovery_calls + 1
    /\ \E resp \in U.structures :
          LET sr == analyze_exam_structure(resp)
              built == BuildQuestions(sr, args.text_scores)
          IN  /\ structure_result' = <<sr>>
              /\ IF built.raised
                 THEN /\ Raise("TypeError")
                      /\ UNCHANGED <<cb, questions_to_grade>>
                 ELSE /\ questions_to_grade' = built.qs
                      /\ Call(20, "questions identified", "question")
                      /\ exc' = exc
    /\ UNCHANGED <<grading_tasks, polled, args, available_models, index,
                   midx, question_results, all_results, model_results,
                   report, last_call, scoring_calls, report_saved,
                   parsed, combined>>

\* QuestionPercent without the base of 20
QuestionPercent_NoBase(i, total) == (i * 70) \div total

\* 20 + int((index / total_qs_count) * 70)
QuestionPercent(i, total) == 20 + ((i * 70) \div total)

\* lines 1060-1081 for the next question, or lines 1112-1113 after the last
NextQuestion ==
    /\ pc = "question"
    /\ IF index < Len(questions_to_grade)
       THEN /\ Call(QuestionPercent(index, Len(questions_to_grade)),
                    "grading question", "grade")
            /\ midx' = 1
            /\ question_results' = <<>>
       ELSE /\ Call(95, "combining results", "combine")
            /\ UNCHANGED <<midx, question_results>>
    /\ UNCHANGED <<grading_tasks, polled, args, available_models,
                   questions_to_grade, index, all_results, model_results,
                   report, structure_result, last_call, exc, counters,
                   parsed, combined>>

\* for model_name, result in question_results.items():
\*     model_results[model_name] += result.get('score', 0)
RECURSIVE AddScores(_, _)
AddScores(totals, results) ==
    IF results = <<>> THEN totals
    ELSE LET m == Head(results)[1]
             sc == Head(results)[2].score.v
         IN  AddScores(DictSet(totals, m,
                 (IF DictHas(totals, m) THEN DictGet(totals, m) ELSE 0) + sc),
                 Tail(results))

\* lines 1094-1110: the result of a call is logged and recorded; after
\* the last provider the question's results are stored
RecordResult(resp, model_name, unique_id, result) ==
    LET stored == IF result.success.b THEN result ELSE ZeroResult(result)
        qr == DictSet(question_results, model_name, stored)
    IN  /\ last_call' = <<[model |-> model_name, response |-> resp,
                           result |-> result,
                           temp |-> TempArtifact(args.api_keys, resp,
                                                 model_name)]>>
        /\ IF /\ result.success.b
              /\ \/ result.score.t = "missing"
                 \/ result.is_correct.t = "missing"
           THEN \* result['score'] / result['is_correct'] in the log line
                /\ Raise("KeyError")
                /\ UNCHANGED <<index, midx, question_results,
                               all_results, model_results>>
           ELSE /\ exc' = exc
                /\ question_results' = qr
                /\ IF midx < Len(available_models)
                   THEN /\ midx' = midx + 1
                        /\ pc' = "grade"
                        /\ UNCHANGED <<index, all_results, model_results>>
                   ELSE /\ all_results' = DictSet(all_results, unique_id, qr)
                        /\ model_results' = AddScores(model_results, qr)
                        /\ index' = index + 1
                        /\ midx' = midx
                        /\ pc' = "question"

\* lines 1083-1110: one provider call for the current question
GradeCall(U) ==
    /\ pc = "grade"
    /\ scoring_calls' = scoring_calls + 1
    /\ \E resp \in U.responses :
          RecordResult(resp, available_models[midx],
              questions_to_grade[index + 1].unique_id,
              GradeWithModel(args.api_keys, resp, available_models[midx],
                  ResolveMaxScore(questions_to_grade[index + 1].score,
                                  default_max_score)))
    /\ UNCHANGED <<grading_tasks, polled, args, available_models,
                   questions_to_grade, report, structure_result, cb,
                   discovery_calls, report_saved, parsed, combined>>

\* lines 1115-1126: combine_results_v2, mark_exam_image (returns the
\* original path), update_progress(100, ...)
Combine ==
    /\ pc = "combine"
    /\ report' = <<combine_results_v2(all_results, questions_to_grade,
                                      default_max_score)>>
    /\ Call(100, "grading finished", "save")
    /\ UNCHANGED <<grading_tasks, polled, args, available_models,
                   questions_to_grade, index, midx, question_results,
                   all_results, model_results, structure_result, last_call,
                   exc, counters, parsed, combined>>

\* ------------------------------------------------------------------------
\* run_grading_task: after grade_exam_with_multiple_models has returned
\* ------------------------------------------------------------------------
\* grading_tasks[task_id][key] = value inside the try block: a KeyError
\* when the entry is gone, handled by the except clause
SetInTry(key, value, next) ==
    IF Registered
    THEN /\ grading_tasks' = [grading_tasks EXCEPT ![TaskId][key] = value]
         /\ pc' = next
         /\ exc' = exc
    ELSE /\ Raise("KeyError")
         /\ UNCHANGED grading_tasks

\* SetInHandler with grading_tasks.setdefault(task_id, {...})[key] = value
SetInHandler_Recreate(key, value, next) ==
    /\ grading_tasks' =
          IF Registered
          THEN [grading_tasks EXCEPT ![TaskId][key] = value]
          ELSE (TaskId :> [NewEntry EXCEPT ![key] = value])
    /\ pc' = next

\* grading_tasks[task_id][key] = value inside the except clause: a KeyError
\* there is handled by nobody and ends the thread
SetInHandler(key, value, next) ==
    IF Registered
    THEN /\ grading_tasks' = [grading_tasks EXCEPT ![TaskId][key] = value]
         /\ pc' = next
    ELSE /\ pc' = "crashed"
         /\ UNCHANGED grading_tasks

\* lines 1259-1271: makedirs, save_grading_report, shutil.copy2; a file
\* operation may raise
SaveReport(U) ==
    /\ pc = "save"
    /\ \E ok \in U.save_outcomes :
          IF ok
          THEN /\ report_saved' = TRUE
               /\ pc' = "done_status"
               /\ exc' = exc
          ELSE /\ Raise("OSError")
               /\ UNCHANGED report_saved
    /\ UNCHANGED <<grading_tasks, polled, args, locals, cb,
                   discovery_calls, scoring_calls, parsed, combined>>

\* line 1274
DoneStatus ==
    /\ pc = "done_status"
    /\ SetInTry("status", "completed", "done_progress")
    /\ UNCHANGED <<polled, args, locals, cb, counters, parsed, combined>>

\* line 1275
DoneProgress ==
    /\ pc = "done_progress"
    /\ SetInTry("progress", 100, "done_result")
    /\ UNCHANGED <<polled, args, locals, cb, counters, parsed, combined>>

\* line 1276
DoneResultFilename ==
    /\ pc = "done_result"
    /\ SetInTry("result_filename", "final.jpg", "done_report")
    /\ UNCHANGED <<polled, args, locals, cb, counters, parsed, combined>>

\* line 1277
DoneReportPath ==
    /\ pc = "done_report"
    /\ SetInTry("report_path", "uploads/grading_final.json", "done_marked")
    /\ UNCHANGED <<polled, args, locals, cb, counters, parsed, combined>>

\* line 1278
DoneMarkedImage ==
    /\ pc = "done_marked"
    /\ SetInTry("marked_image_filename", "final.jpg", "finished")
    /\ UNCHANGED <<polled, args, locals, cb, counters, parsed, combined>>

\* the message of the report that grade_exam_with_multiple_models returns
\* when no provider is available
NoModelError == "no available model: check the API keys or the selection"

\* line 1280
FailStatus ==
    /\ pc = "fail_status"
    /\ SetInTry("status", "error", "fail_error")
    /\ UNCHANGED <<polled, args, locals, cb, counters, parsed, combined>>

\* line 1281
FailError ==
    /\ pc = "fail_error"
    /\ SetInTry("error", NoModelError, "finished")
    /\ UNCHANGED <<polled, args, locals, cb, counters, parsed, combined>>

\* line 1286
HandlerStatus ==
    /\ pc = "exc_status"
    /\ SetInHandler("status", "error", "exc_error")
    /\ UNCHANGED <<polled, args, locals, cb, exc, counters, parsed, combined>>

\* line 1287
HandlerError ==
    /\ pc = "exc_error"
    /\ SetInHandler("error", exc, "finished")
    /\ UNCHANGED <<polled, args, locals, cb, exc, counters, parsed, combined>>

\* ------------------------------------------------------------------------
\* Specifications
\* ------------------------------------------------------------------------
Worker(U) ==
    \/ Start
    \/ CallbackCheck
    \/ CallbackProgress
    \/ CallbackMessage
    \/ SelectModels
    \/ Discover(U)
    \/ NextQuestion
    \/ GradeCall(U)
    \/ Combine
    \/ SaveReport(U)
    \/ DoneStatus
    \/ DoneProgress
    \/ DoneResultFilename
    \/ DoneReportPath
    \/ DoneMarkedImage
    \/ FailStatus
    \/ FailError
    \/ HandlerStatus
    \/ HandlerError

\* --- what the providers may answer to a scoring call ---------------------
CallRaises == [kind |-> "exception"]
EmptyCompletion == [kind |-> "empty"]
Prose == [kind |-> "prose"]
Scored(score, ok) ==
    [kind |-> "object", score |-> score, is_correct |-> Bool(ok),
     analysis |-> Missing, comment |-> StrVal("ok")]
\* a parseable object without 'score' and 'is_correct'
CommentOnly ==
    [kind |-> "object", score |-> Missing, is_correct |-> Missing,
     analysis |-> Missing, comment |-> StrVal("looks fine")]

\* --- what the provider may answer to the discovery call ------------------
Question(id, score) ==
    [t |-> "obj", id |-> StrVal(id), score |-> score, box_2d |-> Missing]
Group(name, default_score, questions) ==
    [t |-> "obj", name |-> name, default_score |-> default_score,
     questions |-> questions]
Structure(groups, total_questions) ==
    [kind |-> "object", groups |-> groups,
     total_questions |-> total_questions, question_numbers |-> Missing]

\* one multiple-choice section of two questions, the first with its own
\* point value 1.3, the second without
OneSection ==
    Structure(List(<<Group(StrVal(<<"xuan", "ze", "ti">>), Missing,
                          List(<<Question(<<"1">>, Num(13)),
                                 Question(<<"2">>, Missing)>>))>>),
              IntVal(2))
\* "groups": null
NullGroups == Structure(None, Missing)
\* "groups": [] and no total_questions
NoGroups == Structure(List(<<>>), Missing)
\* no "groups" key, "total_questions": 1
CountOnly == Structure(Missing, IntVal(1))
\* no "groups" key, "total_questions": "two"
CountAsText == Structure(Missing, StrVal(<<"t", "w", "o">>))
\* a section whose "name" is null, its question without a point value
NamelessSection ==
    Structure(List(<<Group(None, Missing,
                          List(<<Question(<<"1">>, Missing)>>))>>),
              IntVal(1))

\* ------------------------------------------------------------------------
\* parse_grading_response called on its own
\* ------------------------------------------------------------------------
\* one call of parse_grading_response(response_text, max_score)
ParseCall(U) ==
    /\ \E text \in U.texts, max_score \in U.max_scores :
          parsed' = <<[text |-> text, max_score |-> max_score,
                       result |-> parse_grading_response(
                                     [kind |-> "text", text |-> text],
                                     max_score)]>>
    /\ UNCHANGED <<grading_tasks, polled, pc, args, locals, cb, exc, counters,
                   combined>>

\* --- the texts a provider may answer with --------------------------------
\* "key": value
Member(key, value) == <<QUOTE, key, QUOTE, ":", " ">> \o value
Quoted(word) == <<QUOTE, word, QUOTE>>
\* The answer objects of the model: score is the text of the value of
\* "score" (<<>> when the object has no such key), ok the literal of
\* "is_correct", comment the word of the last member, a string.
AnswerObjects ==
    [score : {<<>>, <<"-1">>, <<"0">>, <<"3">>, <<"8">>, <<"12">>,
              Quoted("A"), Quoted("8")},
     ok : {"true", "false"},
     comment : {"weak"}]
\* the members between the braces
Members(o) ==
    (IF o.score = <<>> THEN <<>>
     ELSE Member("score", o.score) \o <<",", " ">>)
    \o Member("is_correct", <<o.ok>>) \o <<",", " ">>
    \o Member("comment", Quoted(o.comment))
\* the last character of a text removed
Chop(s) == SubSeq(s, 1, Len(s) - 1)
\* (a) the bare object
Bare(o) == <<"{">> \o Members(o) \o <<"}">>
\* (b) the object in a fenced block, tagged json or not, prose around it
Fenced(o) ==
    <<"Here", " ", "it", " ", "is", ":", "\n", FENCE, "json", "\n">>
    \o Bare(o) \o <<"\n", FENCE, "\n", "Done", ".">>
FencedPlain(o) ==
    <<"Result", ":", "\n", FENCE, "\n">> \o Bare(o) \o <<"\n", FENCE>>
\* (c) the final closing brace missing
NoBrace(o) == <<"{">> \o Members(o)
\* (d) the closing quote of the last string value missing, the final
\* brace present or not
NoQuote(o) == <<"{">> \o Chop(Members(o)) \o <<"}">>
NoQuoteNoBrace(o) == <<"{">> \o Chop(Members(o))
\* the object between prose, and the object indented with a tab
ProseAround(o) == <<"Sure", ":", " ">> \o Bare(o) \o <<" ", "Done", ".">>
TabIndented(o) == <<"{", "\n", TABCH>> \o Members(o) \o <<"\n", "}">>
\* the shapes the claims name
NamedShapes(o) ==
    {Bare(o), Fenced(o), FencedPlain(o), NoBrace(o), NoQuote(o),
     NoQuoteNoBrace(o)}
Shapes(o) == NamedShapes(o) \cup {ProseAround(o), TabIndented(o)}

\* texts without "{": empty, prose, a number, zero, a string, literals,
\* arrays, prose with one quote, a fenced block of prose
BracelessTexts ==
    {<<>>, <<"no", " ", "answer">>, <<"8">>, <<"0">>, Quoted("ok"),
     <<"true">>, <<"null">>, <<"[", "8", ",", " ", "3", "]">>, <<"[", "]">>,
     <<"it", " ", "said", " ", QUOTE, "ok">>,
     <<FENCE, "json", "\n", "8", "\n", FENCE>>,
     <<"score", ":", " ", "8", "}">>}
\* texts whose only object is the empty one
EmptyObjectTexts ==
    {<<"{", "}">>, <<"{", " ", "}">>, <<"{">>,
     <<FENCE, "json", "\n", "{", "}", "\n", FENCE>>,
     <<"Sure", ":", " ", "{", "}">>}
\* an array holding an object, a closing brace before the opening one, two
\* fenced blocks of which the longer holds no object
OtherTexts ==
    {<<"[">> \o Bare([score |-> <<"8">>, ok |-> "true", comment |-> "weak"])
         \o <<"]">>,
     <<"}", " ", "{">>,
     <<FENCE, "\n", "see", " ", "the", " ", "answer", " ", "below", "\n",
       FENCE, "\n", FENCE, "json", "\n", "{">>
         \o Member("score", <<"3">>) \o <<"}", "\n", FENCE>>}

\* --- the universe of the parser specification ----------------------------
\* max_score in tenths: 0, 0.5, 1.3 and 10.0
ParseU ==
    [texts |-> UNION {Shapes(o) : o \in AnswerObjects}
               \cup BracelessTexts \cup EmptyObjectTexts \cup OtherTexts,
     max_scores |-> {0, Half, 13, DefaultMaxScore}]

\* parse_grading_response alone, on the parser universe
NextParse == ParseCall(ParseU)

SpecParse == Init /\ [][NextParse]_vars

\* a fill-in section in which the provider numbered two questions "1"
RepeatedId ==
    Structure(List(<<Group(StrVal(<<"tian", "kong", "ti">>), Missing,
                          List(<<Question(<<"1">>, Missing),
                                 Question(<<"1">>, Missing)>>))>>),
              IntVal(2))

\* a fill-in section in which two questions are numbered "1", the first
\* with its own point value 1.3
RepeatedIdOwnScore ==
    Structure(List(<<Group(StrVal(<<"tian", "kong", "ti">>), Missing,
                          List(<<Question(<<"1">>, Num(13)),
                                 Question(<<"1">>, Missing)>>))>>),
              IntVal(2))
\* a section whose name holds a '-', its second question numbered "2-1"
DashedSection ==
    Structure(List(<<Group(StrVal(<<"fu", "-", "jia", "ti">>), Missing,
                          List(<<Question(<<"1">>, Missing),
                                 Question(<<"2", "-", "1">>, Missing)>>))>>),
              IntVal(2))
\* a section whose "name" is the number 1, its question worth 1.3 points
NumberedSection ==
    Structure(List(<<Group(IntVal(1), Missing,
                          List(<<Question(<<"1">>, Num(13))>>))>>),
              IntVal(1))
\* no "groups" key, "question_numbers": ["1-2"]
DashedNumber ==
    [kind |-> "object", groups |-> Missing, total_questions |-> IntVal(1),
     question_numbers |-> List(<<StrVal(<<"1", "-", "2">>)>>)]

\* --- the universe of the task life-cycle specification -------------------
\* Every shape of discovery answer, so question lists of 0, 1, 2 and 10
\* questions; scoring answers that succeed or raise in the log line.
LifeU ==
    [counts |-> {None} \cup {IntVal(n) : n \in 0..MaxCount},
     max_scores |-> {None},
     selections |-> {<<>>, <<"gemini-3-pro">>},
     api_keys |-> {<<>>, <<"qwen-vl-max">>,
                   <<"qwen-vl-max", "gemini-3-pro">>},
     text_scores |-> {<<>>},
     structures |-> {CallRaises, Prose, OneSection, NullGroups, NoGroups,
                     CountOnly, CountAsText, NamelessSection, RepeatedId,
                     DashedSection, DashedNumber, NumberedSection,
                     RepeatedIdOwnScore},
     responses |-> {Scored(Num(60), TRUE), CommentOnly},
     save_outcomes |-> BOOLEAN]

\* a section whose default point value is 0
ZeroSection ==
    Structure(List(<<Group(StrVal(<<"san", "-", "ji", "suan">>), Num(0),
                          List(<<Question(<<"1">>, Missing)>>))>>),
              IntVal(1))

\* the completion is a text from which no object is recovered: the last
\* string lacks its closing quote
Unrecovered ==
    [kind |-> "text",
     text |-> NoQuote([score |-> <<"8">>, ok |-> "true", comment |-> "weak"])]

\* a short-answer section of two questions, the first with its own point
\* value 1.3, the second left to the caller's default
MixedSection ==
    Structure(List(<<Group(StrVal(<<"jian", "da", "ti">>), Missing,
                          List(<<Question(<<"1">>, Num(13)),
                                 Question(<<"2">>, Missing)>>))>>),
              IntVal(2))

\* --- the universe of the grading specification ---------------------------
\* scores in tenths: 10.0, 6.0, 0.5 and -1.0 from the providers; default
\* point values 10.0 (None), 1.3, 0 and -1.0 from the caller
GradeU ==
    [counts |-> {None} \cup {IntVal(n) : n \in 0..MaxCount},
     max_scores |-> {None, Num(13), Num(0), Num(-10)},
     selections |-> {<<>>, <<"gemini-3-pro", "qwen-vl-max">>},
     api_keys |-> {<<>>, <<"qwen-vl-max">>,
                   <<"qwen-vl-max", "gemini-3-pro">>},
     text_scores |-> {<<>>, <<<<KwChoice, Num(25)>>>>},
     structures |-> {OneSection, ZeroSection, CountOnly, MixedSection},
     responses |-> {CallRaises, EmptyCompletion, Prose, Unrecovered,
                    Scored(Num(100), TRUE),
                    Scored(Num(60), TRUE), Scored(Num(5), FALSE),
                    Scored(Num(-10), FALSE), Scored(StrVal(<<"A">>), TRUE),
                    CommentOnly},
     save_outcomes |-> {TRUE}]

\* the worker alone, on the grading universe
NextGrade ==
    \/ Submit(GradeU)
    \/ Worker(GradeU)

SpecGrade == Init /\ [][NextGrade]_vars

Next ==
    \/ Submit(LifeU)
    \/ Poll
    \/ ClearHistory
    \/ Worker(LifeU)

Spec == Init /\ [][Next]_vars

\* --- the universe of the fair life-cycle specification -------------------
\* runs with and without a provider, a discovery that finds two questions
\* or raises in the list construction, scoring answers that succeed or
\* raise in the log line, a save that succeeds or raises
LiveU ==
    [counts |-> {None} \cup {IntVal(n) : n \in 0..MaxCount},
     max_scores |-> {None},
     selections |-> {<<>>},
     api_keys |-> {<<>>, <<"qwen-vl-max">>},
     text_scores |-> {<<>>},
     structures |-> {OneSection, NullGroups},
     responses |-> {Scored(Num(60), TRUE), CommentOnly},
     save_outcomes |-> BOOLEAN]

\* The life cycle without clear_history, the worker thread scheduled
\* fairly: threading.Thread(target=run_grading_task).start() runs the
\* worker to its end as long as every call it makes returns or raises.
NextLive ==
    \/ Submit(LiveU)
    \/ Poll
    \/ Worker(LiveU)

SpecLive == Init /\ [][NextLive]_vars /\ WF_vars(Worker(LiveU))

\* ------------------------------------------------------------------------
\* combine_results_v2 called on its own
\* ------------------------------------------------------------------------
\* One call of combine_results_v2(all_results, questions_info,
\* default_max_score) for one question; the two latest calls are kept.
CombineCall(U) ==
    /\ \E question_results_ \in U.results, q \in U.questions,
          dms \in U.default_max_scores :
          LET all == <<<<q.unique_id, question_results_>>>>
          IN  combined' =
                  <<[all_results |-> all, questions_info |-> <<q>>,
                     default_max_score |-> dms,
                     result |-> combine_results_v2(all, <<q>>, dms)]>>
                  \o SubSeq(combined, 1, Min(Len(combined), 1))
    /\ UNCHANGED <<grading_tasks, polled, pc, args, locals, cb, exc, counters,
                   parsed>>

\* what grade_exam_with_multiple_models stores for a successful call
Stored(model_name, score, analysis, comment, max_score) ==
    <<model_name,
      CallResult([t |-> "obj", score |-> Num(score),
                  is_correct |-> Bool(score > 0),
                  analysis |-> analysis, comment |-> StrVal(comment)],
                 model_name, max_score)>>

\* the answers of the two providers, scores in tenths
GeminiAnswers ==
    {Stored("gemini-3-pro", 100, StrVal("steps are shown"), "good",
            DefaultMaxScore),
     Stored("gemini-3-pro", 60, Missing, "fair", DefaultMaxScore),
     Stored("gemini-3-pro", 13, Missing, "weak", DefaultMaxScore)}
QwenAnswers ==
    {Stored("qwen-vl-max", 60, StrVal("result checked"), "okay",
            DefaultMaxScore),
     Stored("qwen-vl-max", 12, Missing, "poor", DefaultMaxScore),
     Stored("qwen-vl-max", 0, Missing, "none", DefaultMaxScore)}

\* --- the universe of the aggregation specification -----------------------
\* the results of one or two providers in either order; a question worth
\* the caller's default, 1.5 or 1.3 points
CombineU ==
    [results |-> {<<g>> : g \in GeminiAnswers}
                 \cup {<<w>> : w \in QwenAnswers}
                 \cup {<<g, w>> : g \in GeminiAnswers, w \in QwenAnswers}
                 \cup {<<w, g>> : g \in GeminiAnswers, w \in QwenAnswers},
     questions |-> {[id |-> StrVal(<<"1">>), group |-> None,
                     unique_id |-> <<"1">>, box_2d |-> Missing,
                     score |-> sc] : sc \in {None, Num(15), Num(13)}},
     default_max_scores |-> {DefaultMaxScore}]

\* combine_results_v2 alone, on the aggregation universe
NextCombine == CombineCall(CombineU)

SpecCombine == Init /\ [][NextCombine]_vars

\* ------------------------------------------------------------------------
\* Properties
\* ------------------------------------------------------------------------
\* the aggregated question results of the report, once there is one
Details == IF report = <<>> THEN <<>> ELSE DictValues(report[1].details)
\* the provider results recorded for an aggregated question
Recorded(d) == DictValues(d.model_scores)
\* the positions of the providers that returned a usable score / that failed
Succeeded(d) == {i \in 1..Len(Recorded(d)) : Truthy(Recorded(d)[i].success)}
Failed(d) == {i \in 1..Len(Recorded(d)) : ~Truthy(Recorded(d)[i].success)}
RECURSIVE SumOver(_, _)
SumOver(results, positions) ==
    IF positions = {} THEN 0
    ELSE LET i == CHOOSE j \in positions : TRUE
         IN  results[i].score.v + SumOver(results, positions \ {i})
\* clamp(round_to_nearest_half(total / count), 0, max_score)
RoundedMean(total, count, max_score) ==
    Max(0, Min(Half * RoundHalfEven(2 * total, count * Unit), max_score))

C3_AlwaysHalfMultiple ==
    \A i \in 1..Len(Details) : Details[i].score % Half = 0

\* C3 amended: every final score is a multiple of 0.5, or it is the
\* question's max_score, which then is not a multiple of 0.5 (the rounded
\* mean exceeded it and the clamp replaced it).
C3_HalfMultipleOrClamped ==
    \A i \in 1..Len(Details) :
        LET d == Details[i]
        IN  \/ d.score % Half = 0
            \/ d.score = d.max_score /\ d.max_score % Half # 0

\* a question worth 1.3 whose provider scores average 1.3: round gives 1.5,
\* the clamp gives 1.3
C3_Witness ==
    \E i \in 1..Len(Details) :
        LET d == Details[i]
        IN  /\ d.max_score = 13
            /\ d.score = 13
            /\ \A j \in 1..Len(Recorded(d)) : Recorded(d)[j].score = Num(13)

\* every dispatched provider failed on the question
AllFailed(d) == Recorded(d) # <<>> /\ Succeeded(d) = {}

\* C4 as stated: a question on which every provider failed has final score
\* 0 and is not correct, whatever its max_score.
C4_AllFailedNotCorrect ==
    \A i \in 1..Len(Details) :
        AllFailed(Details[i]) =>
            Details[i].score = 0 /\ ~Details[i].is_correct

\* C4 amended: a question on which every provider failed has final score 0
\* whatever its max_score, and is not correct when its max_score is positive.
C4_AllFailedPositiveMax ==
    \A i \in 1..Len(Details) :
        AllFailed(Details[i]) =>
            /\ Details[i].score = 0
            /\ Details[i].max_score > 0 => ~Details[i].is_correct

\* two providers, both failed, on a question worth a positive number of points
C4_Witness ==
    \E i \in 1..Len(Details) :
        LET d == Details[i]
        IN  /\ AllFailed(d)
            /\ Len(Recorded(d)) = 2
            /\ d.max_score > 0
            /\ d.comment = "incorrect"

\* C5 as stated: 0 <= final_score <= max_score for every aggregated question.
C5_WithinZeroAndMax ==
    \A i \in 1..Len(Details) :
        0 <= Details[i].score /\ Details[i].score <= Details[i].max_score

\* C5 amended: 0 <= final_score for every aggregated question, and
\* final_score <= max_score for every one whose max_score is not negative.
C5_WithinForNonNegativeMax ==
    \A i \in 1..Len(Details) :
        /\ 0 <= Details[i].score
        /\ Details[i].max_score >= 0 =>
               Details[i].score <= Details[i].max_score

\* a question whose rounded mean lies above its max_score and is clamped
C5_Witness ==
    \E i \in 1..Len(Details) :
        LET d == Details[i]
            scores == [j \in 1..Len(Recorded(d)) |-> Recorded(d)[j].score.v]
        IN  /\ d.max_score >= 0
            /\ Len(scores) > 0
            /\ Half * RoundHalfEven(2 * SumSeq(scores), Len(scores) * Unit)
                   > d.max_score
            /\ d.score = d.max_score

\* no credential is configured, or none of the selected providers has one
NoProvider ==
    IF args.selected_models = <<>> THEN args.api_keys = <<>>
    ELSE \A i \in 1..Len(args.selected_models) :
            \A j \in 1..Len(args.api_keys) :
                args.selected_models[i] # args.api_keys[j]
Status == grading_tasks[TaskId].status

\* C2: the status becomes 'error' only when no provider is available, and a
\* run with a provider ends 'completed' whatever the providers and the
\* structure analysis return.
C2_ErrorOnlyWithoutProvider ==
    /\ (Registered /\ Status = "error") => NoProvider
    /\ (pc = "finished" /\ Registered /\ ~NoProvider) =>
           Status = "completed"

\* the worker thread has ended, normally or through an unhandled exception
Ended == pc \in {"finished", "crashed"}

\* C6: with no provider available, no discovery or scoring call is made, no
\* report is produced, written or referenced in the entry, and the task
\* ends with status 'error' and the configuration-error message.
C6_NoProviderEndsInError ==
    (pc # "idle" /\ NoProvider) =>
        /\ discovery_calls = 0
        /\ scoring_calls = 0
        /\ report = <<>>
        /\ ~report_saved
        /\ Registered =>
              /\ Status # "completed"
              /\ grading_tasks[TaskId].result_filename = Absent
              /\ grading_tasks[TaskId].report_path = Absent
              /\ Ended => /\ Status = "error"
                          /\ grading_tasks[TaskId].error = NoModelError

\* a credential is configured, but for none of the selected providers; the
\* task has ended
C6_Witness ==
    /\ pc = "finished"
    /\ args.selected_models # <<>>
    /\ args.api_keys # <<>>
    /\ NoProvider
    /\ Registered
    /\ Status = "error"
    /\ grading_tasks[TaskId].error = NoModelError

\* C7: the progress values of the entry lie in 0..100 and never decrease,
\* from the 0 of the submission on.
C7_ProgressMonotone ==
    /\ [](Registered => grading_tasks[TaskId].progress \in 0..100)
    /\ [][(Registered /\ Registered') =>
             grading_tasks'[TaskId].progress >= grading_tasks[TaskId].progress
         ]_vars
    /\ [][(~Registered /\ Registered') =>
             grading_tasks'[TaskId].progress = 0]_vars

\* a completed task that went through structure analysis and several
\* questions, its progress at 100
C7_Witness ==
    /\ pc = "finished"
    /\ Registered
    /\ Status = "completed"
    /\ grading_tasks[TaskId].progress = 100
    /\ discovery_calls = 1
    /\ Len(questions_to_grade) > 1

\* C8: an entry that a poll shows as 'completed' already has
\* result_filename and report_path.
C8_CompletedEntryIsWhole ==
    (polled.t = "task" /\ polled.task.status = "completed") =>
        /\ polled.task.result_filename # Absent
        /\ polled.task.report_path # Absent

\* C9: no worker thread ends through an unhandled error caused by the
\* removal of its entry.
C9_NoWorkerCrash == pc # "crashed"

\* C10: the structure-discovery step never raises: once the discovery call is
\* made, the run goes on to grade the question list built from it.
C10_DiscoveryNeverRaises == ~(discovery_calls > 0 /\ exc = "TypeError")

\* ------------------------------------------------------------------------
\* The question list after the discovery call
\* ------------------------------------------------------------------------
\* the ids "1".."10"
TenIds == <<<<"1">>, <<"2">>, <<"3">>, <<"4">>, <<"5">>, <<"6">>, <<"7">>,
            <<"8">>, <<"9">>, <<"1", "0">>>>
\* the list graded is the ten ungrouped questions "1".."10", in order, each
\* with group null, unique_id = id and a null point value
GradesTheTen ==
    /\ Len(questions_to_grade) = Len(TenIds)
    /\ \A i \in 1..Len(questions_to_grade) :
          /\ questions_to_grade[i].id = StrVal(TenIds[i])
          /\ questions_to_grade[i].group = None
          /\ questions_to_grade[i].unique_id = TenIds[i]
          /\ questions_to_grade[i].score = None
\* the discovery call was made (no question count supplied) and reported
\* success = False / success = True
DiscoveryFailed ==
    /\ structure_result # <<>>
    /\ ~structure_result[1].success
DiscoverySucceeded ==
    /\ structure_result # <<>>
    /\ structure_result[1].success

\* C11: when the discovery call fails and no question count was supplied,
\* the question list graded is exactly the ten ungrouped questions "1".."10"
\* in that order, each with group null, unique_id equal to its id and a null
\* point value.
C11_FailedDiscoveryGivesTen ==
    (DiscoveryFailed /\ IsNone(args.question_count)) => GradesTheTen

\* the discovery failed and all ten questions have been graded
C11_Witness ==
    /\ DiscoveryFailed
    /\ IsNone(args.question_count)
    /\ pc = "combine"
    /\ index = Len(TenIds)
    /\ Len(all_results) = Len(TenIds)

\* the discovery answer is an object whose "groups" is a list in which no
\* group has a question
FoundNoQuestion ==
    /\ DiscoverySucceeded
    /\ structure_result[1].groups.t = "list"
    /\ \A i \in 1..Len(structure_result[1].groups.items) :
          LET g == structure_result[1].groups.items[i]
          IN  g.questions.t = "list" /\ g.questions.items = <<>>

\* C12: when the discovery call succeeds but yields an empty question list
\* and no question count was supplied, the list graded is the synthetic
\* sequence of ten ungrouped questions, never the empty list.
C12_EmptyDiscoveryFallsBack ==
    (FoundNoQuestion /\ IsNone(args.question_count) /\ exc = "") =>
        GradesTheTen

\* ------------------------------------------------------------------------
\* parse_grading_response
\* ------------------------------------------------------------------------
\* the value of "score" in the answer object is a JSON number
NumericScore(o) == Len(o.score) = 1 /\ o.score[1] \in NumberLexemes

\* C13: a non-null result of parse_grading_response carries a numeric score
\* within [0, max_score]; an object without a score, or with one that is
\* not a number, gives score 0.
C13_ParsedScoreIsNumeric ==
    (parsed # <<>> /\ ~IsNone(parsed[1].result)) =>
        /\ parsed[1].result.score.t = "num"
        /\ 0 <= parsed[1].result.score.v
        /\ parsed[1].result.score.v <= parsed[1].max_score

\* C14: for max_score > 0 and a numeric score s in the answer object, the
\* score returned by parse_grading_response is min(max(s, 0), max_score).
C14_ScoreClamped ==
    parsed # <<>> =>
        \A o \in AnswerObjects :
            (/\ NumericScore(o)
             /\ parsed[1].text \in Shapes(o)
             /\ parsed[1].max_score > 0
             /\ ~IsNone(parsed[1].result)) =>
                parsed[1].result.score =
                    Num(Min(Max(FloatOfLexeme(o.score[1]), 0),
                            parsed[1].max_score))

\* a negative score in a bare object, returned as 0
C14_Witness ==
    /\ parsed # <<>>
    /\ parsed[1].max_score = DefaultMaxScore
    /\ parsed[1].text =
           Bare([score |-> <<"-1">>, ok |-> "false", comment |-> "weak"])
    /\ parsed[1].result.score = Num(0)

\* C15: for the bare object, the object in a fenced block with prose around
\* it, the object without its final brace, and the object whose last string
\* value lacks its closing quote (final brace present or not), the result
\* is non-null and carries the fields of the object.
C15_RecoversNamedShapes ==
    parsed # <<>> =>
        \A o \in AnswerObjects :
            parsed[1].text \in NamedShapes(o) =>
                /\ ~IsNone(parsed[1].result)
                /\ parsed[1].result.is_correct = Bool(o.ok = "true")
                /\ parsed[1].result.comment = StrVal(<<o.comment>>)
                /\ (parsed[1].result.score.t = "missing") <=> (o.score = <<>>)

\* C16: a text with no "{" gives null, and so does a text whose parse
\* yields a value that is not an object, or the empty object.
C16_NoObjectGivesNull ==
    parsed # <<>> =>
        ((Find(parsed[1].text, "{") = 0 \/ parsed[1].text \in EmptyObjectTexts)
            => IsNone(parsed[1].result))

\* a text with no "{" that is valid JSON for a truthy value (a number, a
\* string, an array), returned as null
C16_Witness ==
    /\ parsed # <<>>
    /\ Find(parsed[1].text, "{") = 0
    /\ json_loads(parsed[1].text).ok
    /\ json_loads(parsed[1].text).val.t = "list"
    /\ json_loads(parsed[1].text).val.items # <<>>
    /\ IsNone(parsed[1].result)

\* ------------------------------------------------------------------------
\* Failed provider calls
\* ------------------------------------------------------------------------
\* the outcome of a dispatch is a failure: no credential for the provider,
\* an exception in the call, an empty or refused completion, or a text from
\* which no object is recovered
FailingOutcome(call) ==
    \/ \A i \in 1..Len(args.api_keys) : args.api_keys[i] # call.model
    \/ call.response.kind \in {"exception", "empty", "prose"}
    \/ /\ call.response.kind = "text"
       /\ IsNone(parse_response_text(call.response.text, 0))

\* C17: a dispatch with a failing outcome returns success = false, score 0
\* and is_correct = false without raising; the question's results record
\* the provider with score 0, and grading goes on with the next provider
\* or, after the last one, with the next question.
C17_FailedCallIsZeroAndContinues ==
    [][(scoring_calls' = scoring_calls + 1 /\ FailingOutcome(last_call'[1]))
        => /\ last_call'[1].result.success = Bool(FALSE)
           /\ last_call'[1].result.score = Num(0)
           /\ last_call'[1].result.is_correct = Bool(FALSE)
           /\ exc' = exc
           /\ DictHas(question_results', last_call'[1].model)
           /\ DictGet(question_results', last_call'[1].model).score = Num(0)
           /\ IF midx < Len(available_models)
              THEN pc' = "grade" /\ midx' = midx + 1 /\ index' = index
              ELSE /\ pc' = "question"
                   /\ index' = index + 1
                   /\ DictHas(all_results',
                              questions_to_grade[index + 1].unique_id)
       ]_vars

\* the first provider's call for the second question raised: it is
\* recorded with score 0 and the second provider is next
C17_Witness ==
    /\ last_call # <<>>
    /\ last_call[1].response.kind = "exception"
    /\ pc = "grade"
    /\ index = 1
    /\ midx = 2
    /\ DictGet(question_results, last_call[1].model).score = Num(0)

\* ------------------------------------------------------------------------
\* The totals of the report
\* ------------------------------------------------------------------------
\* C18: the report has one aggregated result per graded question
\* (total_count is the number of questions graded), total_score and
\* max_total_score are the sums of their final scores and point values,
\* and correct_count is the number of them that are correct.
C18_OneResultPerQuestion ==
    report # <<>> =>
        /\ Len(Details) = Len(questions_to_grade)
        /\ report[1].total_count = Len(questions_to_grade)
        /\ report[1].total_score =
               SumSeq([i \in 1..Len(Details) |-> Details[i].score])
        /\ report[1].max_total_score =
               SumSeq([i \in 1..Len(Details) |-> Details[i].max_score])
        /\ report[1].correct_count =
               Cardinality({i \in 1..Len(Details) : Details[i].is_correct})

\* ------------------------------------------------------------------------
\* Verdicts and accuracy
\* ------------------------------------------------------------------------
\* is_correct and the comment of an aggregated question follow the rule
VerdictRule(d) ==
    /\ d.is_correct <=> (10 * d.score >= 6 * d.max_score)
    /\ d.comment = IF d.is_correct THEN "correct"
                   ELSE IF 2 * d.score >= d.max_score THEN "mostly correct"
                   ELSE IF d.score > 0 THEN "partially correct"
                   ELSE "incorrect"

\* C19 as stated: every aggregated question follows the verdict rule, and
\* its comment is "incorrect" whenever its final score is 0.
C19_ZeroScoreIsIncorrect ==
    \A i \in 1..Len(Details) :
        /\ VerdictRule(Details[i])
        /\ Details[i].score = 0 => Details[i].comment = "incorrect"

\* C19: every aggregated question follows the verdict rule, and its
\* comment is "incorrect" whenever its final score is 0 and its max_score
\* is greater than 0.
C19_ZeroScoreIsIncorrectForPositiveMax ==
    \A i \in 1..Len(Details) :
        /\ VerdictRule(Details[i])
        /\ (Details[i].score = 0 /\ Details[i].max_score > 0) =>
               Details[i].comment = "incorrect"

\* a question worth points with final score 0 and comment "incorrect", and
\* one at exactly half of its points, "mostly correct"
C19_Witness ==
    /\ \E i \in 1..Len(Details) :
          /\ Details[i].score = 0
          /\ Details[i].max_score > 0
          /\ Details[i].comment = "incorrect"
    /\ \E i \in 1..Len(Details) :
          /\ 2 * Details[i].score = Details[i].max_score
          /\ Details[i].max_score > 0
          /\ Details[i].comment = "mostly correct"

\* accuracy is total_score / max_total_score when max_total_score > 0 and
\* 0 when it is 0
AccuracyIsRatio ==
    /\ report[1].accuracy[2] > 0
    /\ report[1].max_total_score > 0 =>
           report[1].accuracy[1] * report[1].max_total_score =
               report[1].total_score * report[1].accuracy[2]
    /\ report[1].max_total_score = 0 => report[1].accuracy[1] = 0
\* 0 <= accuracy <= 1
AccuracyInUnitInterval ==
    /\ 0 <= report[1].accuracy[1]
    /\ report[1].accuracy[1] <= report[1].accuracy[2]

\* C20 as stated: in every report accuracy is the ratio (0 when
\* max_total_score is 0) and lies in [0, 1].
C20_AccuracyInUnitInterval ==
    report # <<>> => (AccuracyIsRatio /\ AccuracyInUnitInterval)

\* C20: in every report accuracy is the ratio (0 when max_total_score is
\* 0), and it lies in [0, 1] when no question has a negative max_score.
C20_AccuracyInUnitIntervalForNonNegativeMax ==
    report # <<>> =>
        /\ AccuracyIsRatio
        /\ (\A i \in 1..Len(Details) : Details[i].max_score >= 0) =>
               AccuracyInUnitInterval

\* a report whose accuracy is strictly between 0 and 1
C20_Witness ==
    /\ report # <<>>
    /\ report[1].max_total_score > 0
    /\ \A i \in 1..Len(Details) : Details[i].max_score >= 0
    /\ 0 < report[1].accuracy[1]
    /\ report[1].accuracy[1] < report[1].accuracy[2]

\* ------------------------------------------------------------------------
\* C21: for a fixed set of per-provider results of a question, the
\* aggregated result (final score, is_correct, comment and the chosen
\* analysis text) is the same for every order in which the providers'
\* results are supplied.
\* ------------------------------------------------------------------------
\* the aggregated result of the question of a direct call
Aggregated(call) == call.result.details[1][2]
\* the providers' results of the question of a direct call
Supplied(call) == call.all_results[1][2]
\* two calls that differ at most in the order of the providers' results
SameResultSet(c1, c2) ==
    /\ c1.questions_info = c2.questions_info
    /\ c1.default_max_score = c2.default_max_score
    /\ Len(Supplied(c1)) = Len(Supplied(c2))
    /\ {Supplied(c1)[i] : i \in 1..Len(Supplied(c1))}
         = {Supplied(c2)[i] : i \in 1..Len(Supplied(c2))}

C21_OrderIndependent ==
    (Len(combined) = 2 /\ SameResultSet(combined[1], combined[2])) =>
        /\ Aggregated(combined[1]).score = Aggregated(combined[2]).score
        /\ Aggregated(combined[1]).is_correct
             = Aggregated(combined[2]).is_correct
        /\ Aggregated(combined[1]).comment = Aggregated(combined[2]).comment
        /\ Aggregated(combined[1]).analysis
             = Aggregated(combined[2]).analysis

\* C21 as the code has it: the final score, is_correct and the comment do
\* not depend on the order of the providers' results; the analysis is that
\* of the first provider, in the supplied order, whose analysis is not
\* empty, and without any a longest comment.
AnalysisOfFirst(call) ==
    LET results == [i \in 1..Len(Supplied(call)) |-> Supplied(call)[i][2]]
        given == {i \in 1..Len(results) : Truthy(Get(results[i].analysis))}
        said == {i \in 1..Len(results) : Truthy(Get(results[i].comment))}
        text == Aggregated(call).analysis
    IN  IF given # {}
        THEN \E i \in given : /\ \A j \in given : i <= j
                              /\ text = results[i].analysis.s
        ELSE IF said # {}
        THEN \E i \in said :
                /\ text = results[i].comment.s
                /\ \A j \in said :
                      Len(results[j].comment.s) <= Len(results[i].comment.s)
        ELSE text = ""

C21_OrderIndependentButAnalysis ==
    /\ \A k \in 1..Len(combined) : AnalysisOfFirst(combined[k])
    /\ (Len(combined) = 2 /\ SameResultSet(combined[1], combined[2])) =>
          /\ Aggregated(combined[1]).score = Aggregated(combined[2]).score
          /\ Aggregated(combined[1]).is_correct
               = Aggregated(combined[2]).is_correct
          /\ Aggregated(combined[1]).comment
               = Aggregated(combined[2]).comment

\* the same two analysed results aggregated in both orders
C21_Witness ==
    /\ Len(combined) = 2
    /\ SameResultSet(combined[1], combined[2])
    /\ Supplied(combined[1]) # Supplied(combined[2])
    /\ \A i \in 1..2 : Truthy(Get(Supplied(combined[1])[i][2].analysis))
    /\ Aggregated(combined[1]).analysis # Aggregated(combined[2]).analysis
    /\ Aggregated(combined[1]).score = Aggregated(combined[2]).score

\* ------------------------------------------------------------------------
\* C22: for every grouped question the aggregated result's group_name and
\* sub_id equal the question's group name and id, for every group name and
\* every question id; an ungrouped question gets no group_name / sub_id.
\* ------------------------------------------------------------------------
\* the aggregated result stored under the unique_id of question q
DetailOf(q) == DictGet(report[1].details, q.unique_id)
HasDash(s) == \E i \in 1..Len(s) : s[i] = "-"
Grouped(q) == ~IsNone(q.group)
SplitRecovers(q) ==
    IF Grouped(q)
    THEN /\ DetailOf(q).group_name = q.group
         /\ DetailOf(q).sub_id = q.id
    ELSE /\ DetailOf(q).group_name = Missing
         /\ DetailOf(q).sub_id = Missing

C22_SplitRecoversEveryId ==
    report # <<>> =>
        \A i \in 1..Len(questions_to_grade) :
            SplitRecovers(questions_to_grade[i])

\* C22 as the code has it: the same for every question whose id holds no
\* '-' and whose group name, if it has one, is a string (which may hold
\* a '-').
C22_SplitRecoversDashFreeId ==
    report # <<>> =>
        \A i \in 1..Len(questions_to_grade) :
            (/\ ~HasDash(Format(questions_to_grade[i].id))
             /\ questions_to_grade[i].group.t \in {"none", "str"}) =>
                SplitRecovers(questions_to_grade[i])

\* a report with a question of a section whose name holds a '-'
C22_Witness ==
    /\ report # <<>>
    /\ \E i \in 1..Len(questions_to_grade) :
          LET q == questions_to_grade[i]
          IN  /\ Grouped(q)
              /\ HasDash(Format(q.group))
              /\ ~HasDash(Format(q.id))
              /\ DetailOf(q).group_name = q.group
              /\ DetailOf(q).sub_id = q.id

\* ------------------------------------------------------------------------
\* C23: every grade_with_model call that writes a processed-image artifact
\* attempts to remove it before it returns, whatever the outcome of the
\* call.
\* ------------------------------------------------------------------------
C23_RemovalAlwaysAttempted ==
    (last_call # <<>> /\ last_call[1].temp.written) =>
        last_call[1].temp.removal_attempted

\* ------------------------------------------------------------------------
\* C24: with a question count N supplied no discovery call is made and
\* exactly the synthetic questions "1".."N" are graded, in that order;
\* with no count supplied exactly one discovery call is made, before the
\* first scoring call.
\* ------------------------------------------------------------------------
\* grade_exam_with_multiple_models has returned to run_grading_task
Returned ==
    pc \in {"save", "done_status", "done_progress", "done_result",
            "done_report", "done_marked", "fail_status", "fail_error"}
CountSupplied == args # <<>> /\ ~IsNone(args.question_count)
CountNotSupplied == args # <<>> /\ IsNone(args.question_count)
\* the keys of all_results, in the order the questions were graded
GradedIds == [i \in 1..Len(all_results) |-> all_results[i][1]]
OneToN == [i \in 1..Max(args.question_count.v, 0) |-> Str(i)]
\* never a second discovery call, and none after a scoring call
DiscoveryOnceAndFirst ==
    /\ discovery_calls <= 1
    /\ scoring_calls > 0 => discovery_calls = 1

DispatchedAreSelectedAndConfigured ==
    IF args.selected_models = <<>> THEN available_models = args.api_keys
    ELSE /\ \A i \in 1..Len(available_models) :
               /\ \E j \in 1..Len(args.selected_models) :
                     args.selected_models[j] = available_models[i]
               /\ \E j \in 1..Len(args.api_keys) :
                     args.api_keys[j] = available_models[i]
         /\ \A j \in 1..Len(args.selected_models) :
               (\E k \in 1..Len(args.api_keys) :
                   args.api_keys[k] = args.selected_models[j])
               => \E i \in 1..Len(available_models) :
                     available_models[i] = args.selected_models[j]

C25_CallsPerQuestionAndProvider ==
    (pc = "finished" /\ available_models # <<>>) =>
        /\ DispatchedAreSelectedAndConfigured
        /\ scoring_calls = Len(questions_to_grade) * Len(available_models)

\* ------------------------------------------------------------------------
\* C26: when the mean m of the providers' scores lies in [0, max_score]
\* and max_score is a multiple of 0.5, final_score is a multiple of 0.5
\* with |final_score - m| <= 0.25, and final_score does not decrease when
\* m grows; scores 10 and 6 out of 10 give 8.0.
\* ------------------------------------------------------------------------
\* the scores the providers gave, in tenths, and their number
ScoreSum(call) ==
    SumSeq([i \in 1..Len(Supplied(call)) |-> Supplied(call)[i][2].score.v])
ScoreCount(call) == Len(Supplied(call))
\* 0 <= m <= max_score, and max_score a multiple of 0.5
MeanWithinMax(call) ==
    /\ ScoreCount(call) > 0
    /\ Aggregated(call).max_score % Half = 0
    /\ 0 <= ScoreSum(call)
    /\ ScoreSum(call) <= Aggregated(call).max_score * ScoreCount(call)
Abs(x) == IF x < 0 THEN -x ELSE x
\* final_score is a multiple of 0.5 at most 0.25 away from the mean
NearestHalf(call) ==
    /\ Aggregated(call).score % Half = 0
    /\ 2 * Abs(Aggregated(call).score * ScoreCount(call) - ScoreSum(call))
         <= Half * ScoreCount(call)
\* m1 <= m2
MeanAtMost(c1, c2) ==
    ScoreSum(c1) * ScoreCount(c2) <= ScoreSum(c2) * ScoreCount(c1)
\* scores 10 and 6 out of 10
TenAndSix(call) ==
    /\ ScoreCount(call) = 2
    /\ Aggregated(call).max_score = 100
    /\ {Supplied(call)[i][2].score.v : i \in 1..2} = {100, 60}

C26_NearestHalfAndMonotone ==
    /\ \A k \in 1..Len(combined) :
          /\ MeanWithinMax(combined[k]) => NearestHalf(combined[k])
          /\ TenAndSix(combined[k]) => Aggregated(combined[k]).score = 80
    /\ \A j, k \in 1..Len(combined) :
          (/\ MeanWithinMax(combined[j])
           /\ MeanWithinMax(combined[k])
           /\ Aggregated(combined[j]).max_score
                = Aggregated(combined[k]).max_score
           /\ MeanAtMost(combined[j], combined[k]))
          => Aggregated(combined[j]).score <= Aggregated(combined[k]).score

\* scores 10 and 6 out of 10 after a question whose mean 1.25 of 1.5 was
\* rounded to 1.0
C26_Witness ==
    /\ Len(combined) = 2
    /\ TenAndSix(combined[1])
    /\ Aggregated(combined[1]).score = 80
    /\ MeanWithinMax(combined[2])
    /\ Aggregated(combined[2]).max_score = 15
    /\ ScoreSum(combined[2]) = 25
    /\ ScoreCount(combined[2]) = 2
    /\ Aggregated(combined[2]).score = 10

\* ------------------------------------------------------------------------
\* C27: whatever a poll shows, progress = 100 implies status 'completed':
\* a task that is 'processing' or in 'error' never shows progress 100.
\* ------------------------------------------------------------------------
C27_FullProgressMeansCompleted ==
    (polled.t = "task" /\ polled.task.progress = 100) =>
        polled.task.status = "completed"

\* ------------------------------------------------------------------------
\* C28: the point value of a question of a discovered group is its own
\* score if not null, else the group's default_score, else the score of
\* the first keyword rule whose keyword occurs in the group name, else 3 /
\* 2 / 2 for a multiple-choice / fill-in / true-false group name, else
\* null, which the scoring call and the aggregation replace by the
\* caller's default; the max_score passed to the providers for a question
\* equals the max_score of its aggregated result.
\* ------------------------------------------------------------------------
\* the stated precedence, for question item q of a group with a string name
StatedPointValue(q, group) ==
    IF ~IsNone(Get(q.score)) THEN q.score
    ELSE IF ~IsNone(Get(group.default_score)) THEN group.default_score
    ELSE IF ~IsNone(FirstKeywordScore(args.text_scores, group.name.s))
    THEN FirstKeywordScore(args.text_scores, group.name.s)
    ELSE IF Contains(KwChoice, group.name.s) THEN Num(ChoiceScore)
    ELSE IF Contains(KwFill, group.name.s) THEN Num(FillScore)
    ELSE IF Contains(KwJudge, group.name.s) THEN Num(JudgeScore)
    ELSE None
\* the discovery found one group with a string name, and its questions
\* are the question list
OneGroupDiscovered ==
    /\ structure_result # <<>>
    /\ structure_result[1].success
    /\ structure_result[1].groups.t = "list"
    /\ Len(structure_result[1].groups.items) = 1
    /\ structure_result[1].groups.items[1].name.t = "str"
    /\ Len(questions_to_grade)
         = Len(structure_result[1].groups.items[1].questions.items)
\* what line 1086 passes as max_score for question q
PassedMaxScore(q) ==
    IF IsNone(Get(q.score)) \/ ~CanFloat(q.score) THEN default_max_score
    ELSE FloatOf(q.score)

C28_PointValuePrecedence ==
    /\ OneGroupDiscovered =>
          LET group == structure_result[1].groups.items[1]
          IN  \A i \in 1..Len(questions_to_grade) :
                 questions_to_grade[i].score
                   = StatedPointValue(group.questions.items[i], group)
    /\ report # <<>> =>
          \A i \in 1..Len(questions_to_grade) :
             DetailOf(questions_to_grade[i]).max_score
               = PassedMaxScore(questions_to_grade[i])

\* ------------------------------------------------------------------------
\* C29: when every call returns or raises and no reset removes the entry,
\* every submitted task leaves 'processing' for 'completed' or 'error':
\* the entry exists with status 'processing' before the worker starts, and
\* an exception raised anywhere in the worker ends the task in 'error'
\* with the exception's message recorded.
\* ------------------------------------------------------------------------
Terminal == {"completed", "error"}

C29_EveryTaskEnds ==
    /\ [](pc # "idle" => Registered)
    /\ [](pc = "start" => Status = "processing")
    /\ [](pc # "idle" => Status \in {"processing"} \cup Terminal)
    /\ [](pc # "crashed")
    /\ []((pc = "finished" /\ exc # "") =>
             /\ Status = "error"
             /\ grading_tasks[TaskId].error = exc)
    /\ (pc # "idle") ~> (pc = "finished" /\ Status \in Terminal)

\* the report could not be saved: the task ended in 'error' with the
\* message of the exception
C29_Witness ==
    /\ pc = "finished"
    /\ exc = "OSError"
    /\ report # <<>>
    /\ Status = "error"
    /\ grading_tasks[TaskId].error = "OSError"

\* ------------------------------------------------------------------------
\* C30: terminal statuses are absorbing: once the status of an entry is
\* 'completed' or 'error' no later step changes its status or its
\* progress, and a worker whose entry a reset removed never creates the
\* entry again.
\* ------------------------------------------------------------------------
C30_TerminalIsAbsorbing ==
    /\ [][(Registered /\ Status \in Terminal /\ Registered') =>
             /\ grading_tasks'[TaskId].status = Status
             /\ grading_tasks'[TaskId].progress
                  = grading_tasks[TaskId].progress
         ]_vars
    /\ [][(pc # "idle" /\ ~Registered) => ~Registered']_vars

\* the worker has gone on writing to an entry that is 'completed'
C30_Witness ==
    /\ pc = "done_report"
    /\ Registered
    /\ Status = "completed"
    /\ grading_tasks[TaskId].progress = 100
    /\ grading_tasks[TaskId].result_filename # Absent

====
